---- MODULE Spec2Model ----
(***************************************************************************)
(* Model of the collectd jsonrpc plugin (src/src/jsonrpc.c) and of its     *)
(* perfwatcher callbacks (src/unnamed/part_000, jsonrpc_cb_perfwatcher.c). *)
(*                                                                         *)
(* The specifications share the variables of the module:                   *)
(*   Spec         the snapshot cache: the read thread running              *)
(*                jsonrpc_update_cache against handler threads running     *)
(*                jsonrpc_cache_last_entry_find_and_ref / _entry_unref;    *)
(*   SpecHttp     the HTTP front end: jsonrpc_proceed_request_cb,          *)
(*                send_page and request_completed, one thread per          *)
(*                connection (MHD_USE_THREAD_PER_CONNECTION);              *)
(*   SpecRequest  one request on one connection, with every request body   *)
(*                of the codec (jsonrpc_parse_data, jsonrpc_parse_node);   *)
(*   SpecSeq, SpecConfigured  whole calls of the cache functions, after    *)
(*                jsonrpc_config in the second;                            *)
(*   SpecDecode   decode_from_www_urlencoded on form-encoded bodies;       *)
(*   SpecPw       pw_get_status and pw_get_metric, one call at a time, on  *)
(*                every value cache and request of the bounds;             *)
(*   SpecPwCache  the same callbacks in two handler threads beside         *)
(*                jsonrpc_update_cache;                                    *)
(*   SpecDir      pw_get_dir_plugins and pw_get_dir_types;                 *)
(*   SpecConfig   jsonrpc_config on every key and number of the bounds;    *)
(*   SpecRead, SpecReadFair  the read callback jsonrpc_read statement by   *)
(*                statement beside handlers that take and release the      *)
(*                snapshot, the second with the fairness of collectd's     *)
(*                read loop and of the handlers' release;                  *)
(*   SpecHolders, SpecPopulated  Spec kept to the behaviours with a        *)
(*                bounded number of holders, and to calls started while a  *)
(*                slot is ready;                                           *)
(*   SpecLocks    the connection threads and the read thread statement by  *)
(*                statement on the six mutexes and the counters.           *)
(*                                                                         *)
(* jsonrpc_update_cache takes no mutex, so each of its accesses to         *)
(* uc_cache_copy is a step of its own that interleaves with the steps the  *)
(* handlers take inside local_cache_lock.  A single read or write of a     *)
(* field, and the increment ref++, are taken as atomic.  The first         *)
(* callback reads nb_clients outside nb_clients_lock, so its test and its  *)
(* increment are two steps.                                                *)
(*                                                                         *)
(* Snapshots are identified by their generation: the n-th successful       *)
(* uc_get_names stores the arrays n (names, times) and the count n; 0 is   *)
(* NULL.  heap holds the generations whose arrays are still allocated.     *)
(***************************************************************************)
EXTENDS Integers, Sequences, FiniteSets, TLC

(* ------------------------------ bounds -------------------------------- *)
\* Size of the table uc_cache_copy (6 in the source, any value >= 2 works).
NB_CACHE_ENTRY_MAX == 3
\* Handler threads that use the cache concurrently.
NumHandlers == 2
\* Last value of the wall clock time(NULL); the clock starts at 1.
MaxTime == 7
\* Largest configured JsonrpcCacheExpirationTime tried.
MaxExpiration == 2
\* Snapshots that uc_get_names delivers in one run.
MaxSnapshots == 4

\* Connection threads of the HTTP daemon.
NumConns == 2
\* HTTP requests started in one behaviour (caps the lifetime counters).
MaxRequests == 2
\* Largest configured MaxClients tried.
MaxConfiguredClients == 1
\* Largest number of upload callbacks that deliver one body.
MaxChunks == 1
\* Largest number of elements of a batch.
MaxBatch == 2
\* Largest integer id of a request object.
MaxId == 1

\* longest request text given to decode_from_www_urlencoded, in bytes
MaxText == 2
\* most names in the arrays of uc_get_names
MaxNames == 2
\* most elements in the server array of a perfwatcher request
MaxServers == 2
\* longest hostname or plugin given to the directory callbacks, in bytes
MaxNameLen == 2
\* Requests served by each connection thread, and calls of jsonrpc_read, in
\* the model of the mutexes.
MaxLockRequests == 1
\* cdtime_t units in one second (2^30 in the daemon)
CdtimePerSecond == 2
\* width of cdtime_t in bits (64 in the daemon)
CdtimeBits == 6

Slots == 0 .. (NB_CACHE_ENTRY_MAX - 1)
Handlers == 1 .. NumHandlers
Conns == 1 .. NumConns

VARIABLES
    uc_cache_copy,      \* [Slots -> uc_cache_copy_t]
    heap,               \* the generations of names/times arrays still allocated
    nb_gen,             \* number of successful uc_get_names calls so far
    now,                \* time(NULL)
    jsonrpc_cache_expiration_time,
    local_cache_lock,   \* 0 when free, else the handler holding it
    upd,                \* the read thread inside jsonrpc_update_cache
    rd,                 \* [Handlers -> a handler thread using the cache]
    crashed,            \* "none", or the assertion that aborted the process
    max_clients,
    nb_clients,
    nb_new_connections,
    nb_jsonrpc_request_failed,
    nb_jsonrpc_request_success,
    nb_requests,        \* HTTP requests started so far
    con,                \* [Conns -> the connection's thread and its con_info]
    dec,                \* a body buffer going through decode_from_www_urlencoded
    uc_index,           \* the arrays uc_get_names hands out
    pw_params,          \* the params member of the perfwatcher requests
    pw,                 \* [Handlers -> a perfwatcher callback being executed]
    httpd_server_port,
    read,               \* the read thread inside jsonrpc_read
    mutex,              \* [Mutexes -> the thread that holds it, 0 when free]
    thr                 \* [Threads -> where the thread is in a locking function]

cache_vars == <<uc_cache_copy, heap, nb_gen, now, jsonrpc_cache_expiration_time,
                local_cache_lock, upd, rd, crashed>>

http_vars == <<max_clients, nb_clients, nb_new_connections,
               nb_jsonrpc_request_failed, nb_jsonrpc_request_success,
               nb_requests, con>>

codec_vars == <<dec>>

pw_vars == <<uc_index, pw_params, pw>>

plugin_vars == <<httpd_server_port, read, mutex, thr>>

vars == <<uc_cache_copy, heap, nb_gen, now, jsonrpc_cache_expiration_time,
          local_cache_lock, upd, rd, crashed,
          max_clients, nb_clients, nb_new_connections,
          nb_jsonrpc_request_failed, nb_jsonrpc_request_success,
          nb_requests, con, dec, uc_index, pw_params, pw,
          httpd_server_port, read, mutex, thr>>

(* --------------------------- snapshot cache ---------------------------- *)
\* memset(uc_cache_copy, 0, ...) in jsonrpc_init
EmptyEntry == [names |-> 0, times |-> 0, number |-> 0,
               update_time |-> 0, ref |-> 0, ready |-> 0]

UpdIdle == [pc |-> "idle", i |-> 0, last_cache_entry |-> -1,
            free_cache_entry |-> -1, now |-> 0, update_needed |-> 0]

RdIdle == [pc |-> "idle", i |-> 0, update_time |-> 0, last_cache_entry |-> -1,
           names |-> 0, times |-> 0, number |-> 0, cache_id |-> -1]

\* The loop of jsonrpc_cache_last_entry_find over a table t, from slot i on.
RECURSIVE last_entry_scan(_, _, _, _)
last_entry_scan(t, i, update_time, last_cache_entry) ==
    IF i = NB_CACHE_ENTRY_MAX THEN last_cache_entry
    ELSE IF t[i].ready = 1 /\ t[i].update_time > update_time
         THEN last_entry_scan(t, i + 1, t[i].update_time, i)
         ELSE last_entry_scan(t, i + 1, update_time, last_cache_entry)

jsonrpc_cache_last_entry_find == last_entry_scan(uc_cache_copy, 0, 0, -1)

jsonrpc_cache_nb_entries == Cardinality({i \in Slots : uc_cache_copy[i].ready = 1})

InitCache(expirations) ==
    /\ uc_cache_copy = [i \in Slots |-> EmptyEntry]
    /\ heap = {}
    /\ nb_gen = 0
    /\ now = 1
    /\ jsonrpc_cache_expiration_time \in expirations
    /\ local_cache_lock = 0
    /\ upd = UpdIdle
    /\ rd = [h \in Handlers |-> RdIdle]
    /\ crashed = "none"

\* time(NULL) advances.
ClockTick ==
    /\ crashed = "none"
    /\ now < MaxTime
    /\ now' = now + 1
    /\ UNCHANGED <<uc_cache_copy, heap, nb_gen, jsonrpc_cache_expiration_time,
                   local_cache_lock, upd, rd, crashed>>
    /\ UNCHANGED <<http_vars, codec_vars, pw_vars, plugin_vars>>

(* jsonrpc_update_cache, statement by statement *)

\* last_cache_entry = jsonrpc_cache_last_entry_find();
UpdFind ==
    /\ crashed = "none"
    /\ upd.pc = "idle"
    /\ upd' = [UpdIdle EXCEPT !.pc = "reclaim_test",
                              !.last_cache_entry = jsonrpc_cache_last_entry_find]
    /\ UNCHANGED <<uc_cache_copy, heap, nb_gen, now, jsonrpc_cache_expiration_time,
                   local_cache_lock, rd, crashed>>
    /\ UNCHANGED <<http_vars, codec_vars, pw_vars, plugin_vars>>

\* Variant of the guard that spares the slots before the current one.
ReclaimGuard_AfterCurrentOnly(i, last_cache_entry) ==
    /\ uc_cache_copy[i].ready = 1
    /\ uc_cache_copy[i].ref = 0
    /\ i > last_cache_entry

\* The guard of the "free old cache memory" loop for slot i.
ReclaimGuard(i, last_cache_entry) ==
    /\ uc_cache_copy[i].ready = 1
    /\ uc_cache_copy[i].ref = 0
    /\ i # last_cache_entry

UpdNextSlot(u) ==
    IF u.i + 1 = NB_CACHE_ENTRY_MAX
    THEN [u EXCEPT !.pc = "decide", !.i = 0]
    ELSE [u EXCEPT !.pc = "reclaim_test", !.i = u.i + 1]

UpdReclaimTest ==
    /\ crashed = "none"
    /\ upd.pc = "reclaim_test"
    /\ upd' = IF ReclaimGuard(upd.i, upd.last_cache_entry)
              THEN [upd EXCEPT !.pc = "reclaim_clear"]
              ELSE UpdNextSlot(upd)
    /\ UNCHANGED <<uc_cache_copy, heap, nb_gen, now, jsonrpc_cache_expiration_time,
                   local_cache_lock, rd, crashed>>
    /\ UNCHANGED <<http_vars, codec_vars, pw_vars, plugin_vars>>

\* uc_cache_copy[i].ready=0;
UpdReclaimClear ==
    /\ crashed = "none"
    /\ upd.pc = "reclaim_clear"
    /\ uc_cache_copy' = [uc_cache_copy EXCEPT ![upd.i].ready = 0]
    /\ upd' = [upd EXCEPT !.pc = "reclaim_free"]
    /\ UNCHANGED <<heap, nb_gen, now, jsonrpc_cache_expiration_time,
                   local_cache_lock, rd, crashed>>
    /\ UNCHANGED <<http_vars, codec_vars, pw_vars, plugin_vars>>

\* free(names[j]) for all j; free(names); free(times);
UpdReclaimFree ==
    /\ crashed = "none"
    /\ upd.pc = "reclaim_free"
    /\ heap' = heap \ {uc_cache_copy[upd.i].names, uc_cache_copy[upd.i].times}
    /\ upd' = [upd EXCEPT !.pc = "reclaim_null"]
    /\ UNCHANGED <<uc_cache_copy, nb_gen, now, jsonrpc_cache_expiration_time,
                   local_cache_lock, rd, crashed>>
    /\ UNCHANGED <<http_vars, codec_vars, pw_vars, plugin_vars>>

\* names=NULL; times=NULL; number=0; update_time=0;
UpdReclaimNull ==
    /\ crashed = "none"
    /\ upd.pc = "reclaim_null"
    /\ uc_cache_copy' = [uc_cache_copy EXCEPT ![upd.i].names = 0,
                                              ![upd.i].times = 0,
                                              ![upd.i].number = 0,
                                              ![upd.i].update_time = 0]
    /\ upd' = UpdNextSlot(upd)
    /\ UNCHANGED <<heap, nb_gen, now, jsonrpc_cache_expiration_time,
                   local_cache_lock, rd, crashed>>
    /\ UNCHANGED <<http_vars, codec_vars, pw_vars, plugin_vars>>

\* UpdateNeeded with the comparison "<=" in place of "<".
UpdateNeeded_AtExpiration(last_cache_entry, t) ==
    IF last_cache_entry = -1 THEN 1
    ELSE IF uc_cache_copy[last_cache_entry].update_time
              + jsonrpc_cache_expiration_time <= t
         THEN 1
         ELSE 0

\* The test "check if update is needed" with the clock value t.
UpdateNeeded(last_cache_entry, t) ==
    IF last_cache_entry = -1 THEN 1
    ELSE IF uc_cache_copy[last_cache_entry].update_time
              + jsonrpc_cache_expiration_time < t
         THEN 1
         ELSE 0

\* now = time(NULL); update_needed = ...
UpdDecide ==
    /\ crashed = "none"
    /\ upd.pc = "decide"
    /\ upd' = [upd EXCEPT !.pc = "test_needed",
                          !.now = now,
                          !.update_needed = UpdateNeeded(upd.last_cache_entry, now)]
    /\ UNCHANGED <<uc_cache_copy, heap, nb_gen, now, jsonrpc_cache_expiration_time,
                   local_cache_lock, rd, crashed>>
    /\ UNCHANGED <<http_vars, codec_vars, pw_vars, plugin_vars>>

\* if(0 == update_needed) return(0);
UpdTestNeeded ==
    /\ crashed = "none"
    /\ upd.pc = "test_needed"
    /\ upd' = IF upd.update_needed = 0 THEN UpdIdle
              ELSE [upd EXCEPT !.pc = "find_free"]
    /\ UNCHANGED <<uc_cache_copy, heap, nb_gen, now, jsonrpc_cache_expiration_time,
                   local_cache_lock, rd, crashed>>
    /\ UNCHANGED <<http_vars, codec_vars, pw_vars, plugin_vars>>

\* FirstFreeEntry that falls back on slot 0 when every slot is ready.
FirstFreeEntry_ReuseSlot0 ==
    IF \E i \in Slots : uc_cache_copy[i].ready = 0
    THEN CHOOSE i \in Slots : /\ uc_cache_copy[i].ready = 0
                              /\ \A j \in Slots : j < i => uc_cache_copy[j].ready # 0
    ELSE 0

\* The "find free entry" loop: the first slot that is not ready, or -1.
FirstFreeEntry ==
    IF \E i \in Slots : uc_cache_copy[i].ready = 0
    THEN CHOOSE i \in Slots : /\ uc_cache_copy[i].ready = 0
                              /\ \A j \in Slots : j < i => uc_cache_copy[j].ready # 0
    ELSE -1

\* A free entry was found.
UpdFindFree ==
    /\ crashed = "none"
    /\ upd.pc = "find_free"
    /\ FirstFreeEntry # -1
    /\ upd' = [upd EXCEPT !.pc = "get_names", !.free_cache_entry = FirstFreeEntry]
    /\ UNCHANGED <<uc_cache_copy, heap, nb_gen, now, jsonrpc_cache_expiration_time,
                   local_cache_lock, rd, crashed>>
    /\ UNCHANGED <<http_vars, codec_vars, pw_vars, plugin_vars>>

\* No free entry: ERROR(...) and assert(free_cache_entry != -1) aborts.
UpdNoFreeEntry ==
    /\ crashed = "none"
    /\ upd.pc = "find_free"
    /\ FirstFreeEntry = -1
    /\ crashed' = "assert_free_cache_entry"
    /\ UNCHANGED <<uc_cache_copy, heap, nb_gen, now, jsonrpc_cache_expiration_time,
                   local_cache_lock, upd, rd>>
    /\ UNCHANGED <<http_vars, codec_vars, pw_vars, plugin_vars>>

\* uc_get_names succeeds: it stores fresh arrays in the chosen slot.
UpdGetNames ==
    /\ crashed = "none"
    /\ upd.pc = "get_names"
    /\ nb_gen < MaxSnapshots
    /\ nb_gen' = nb_gen + 1
    /\ heap' = heap \cup {nb_gen + 1}
    /\ uc_cache_copy' = [uc_cache_copy EXCEPT
                            ![upd.free_cache_entry].names = nb_gen + 1,
                            ![upd.free_cache_entry].times = nb_gen + 1,
                            ![upd.free_cache_entry].number = nb_gen + 1]
    /\ upd' = [upd EXCEPT !.pc = "set_update_time"]
    /\ UNCHANGED <<now, jsonrpc_cache_expiration_time, local_cache_lock, rd, crashed>>
    /\ UNCHANGED <<http_vars, codec_vars, pw_vars, plugin_vars>>

\* uc_get_names fails: the slot is reset and the function returns -1.
UpdGetNamesFailed ==
    /\ crashed = "none"
    /\ upd.pc = "get_names"
    /\ uc_cache_copy' = [uc_cache_copy EXCEPT ![upd.free_cache_entry] = EmptyEntry]
    /\ upd' = UpdIdle
    /\ UNCHANGED <<heap, nb_gen, now, jsonrpc_cache_expiration_time,
                   local_cache_lock, rd, crashed>>
    /\ UNCHANGED <<http_vars, codec_vars, pw_vars, plugin_vars>>

\* uc_cache_copy[free_cache_entry].update_time = time(NULL);
UpdSetUpdateTime ==
    /\ crashed = "none"
    /\ upd.pc = "set_update_time"
    /\ uc_cache_copy' = [uc_cache_copy EXCEPT ![upd.free_cache_entry].update_time = now]
    /\ upd' = [upd EXCEPT !.pc = "set_ref"]
    /\ UNCHANGED <<heap, nb_gen, now, jsonrpc_cache_expiration_time,
                   local_cache_lock, rd, crashed>>
    /\ UNCHANGED <<http_vars, codec_vars, pw_vars, plugin_vars>>

\* uc_cache_copy[free_cache_entry].ref = 0;
UpdSetRef ==
    /\ crashed = "none"
    /\ upd.pc = "set_ref"
    /\ uc_cache_copy' = [uc_cache_copy EXCEPT ![upd.free_cache_entry].ref = 0]
    /\ upd' = [upd EXCEPT !.pc = "set_ready"]
    /\ UNCHANGED <<heap, nb_gen, now, jsonrpc_cache_expiration_time,
                   local_cache_lock, rd, crashed>>
    /\ UNCHANGED <<http_vars, codec_vars, pw_vars, plugin_vars>>

\* uc_cache_copy[free_cache_entry].ready = 1; return(0);
UpdSetReady ==
    /\ crashed = "none"
    /\ upd.pc = "set_ready"
    /\ uc_cache_copy' = [uc_cache_copy EXCEPT ![upd.free_cache_entry].ready = 1]
    /\ upd' = UpdIdle
    /\ UNCHANGED <<heap, nb_gen, now, jsonrpc_cache_expiration_time,
                   local_cache_lock, rd, crashed>>
    /\ UNCHANGED <<http_vars, codec_vars, pw_vars, plugin_vars>>

jsonrpc_update_cache ==
    \/ UpdFind
    \/ UpdReclaimTest
    \/ UpdReclaimClear
    \/ UpdReclaimFree
    \/ UpdReclaimNull
    \/ UpdDecide
    \/ UpdTestNeeded
    \/ UpdFindFree
    \/ UpdNoFreeEntry
    \/ UpdGetNames
    \/ UpdGetNamesFailed
    \/ UpdSetUpdateTime
    \/ UpdSetRef
    \/ UpdSetReady

(* jsonrpc_cache_last_entry_find_and_ref, run by handler h *)

\* pthread_mutex_lock (&local_cache_lock);
RefLock(h) ==
    /\ crashed = "none"
    /\ rd[h].pc = "idle"
    /\ local_cache_lock = 0
    /\ local_cache_lock' = h
    /\ rd' = [rd EXCEPT ![h] = [RdIdle EXCEPT !.pc = "scan"]]
    /\ UNCHANGED <<uc_cache_copy, heap, nb_gen, now, jsonrpc_cache_expiration_time,
                   upd, crashed>>
    /\ UNCHANGED <<http_vars, codec_vars, pw_vars, plugin_vars>>

\* One iteration of the for loop over the slots.
RefScan(h) ==
    /\ crashed = "none"
    /\ rd[h].pc = "scan"
    /\ LET r == rd[h]
           e == uc_cache_copy[r.i]
           hit == e.ready = 1 /\ e.update_time > r.update_time
           r1 == IF hit THEN [r EXCEPT !.update_time = e.update_time,
                                       !.last_cache_entry = r.i]
                 ELSE r
       IN rd' = [rd EXCEPT ![h] =
                    IF r.i + 1 = NB_CACHE_ENTRY_MAX
                    THEN [r1 EXCEPT !.pc = "ref", !.i = 0]
                    ELSE [r1 EXCEPT !.i = r.i + 1]]
    /\ UNCHANGED <<uc_cache_copy, heap, nb_gen, now, jsonrpc_cache_expiration_time,
                   local_cache_lock, upd, crashed>>
    /\ UNCHANGED <<http_vars, codec_vars, pw_vars, plugin_vars>>

\* uc_cache_copy[last_cache_entry].ref++;
RefIncrement(h) ==
    /\ crashed = "none"
    /\ rd[h].pc = "ref"
    /\ rd[h].last_cache_entry # -1
    /\ uc_cache_copy' = [uc_cache_copy EXCEPT ![rd[h].last_cache_entry].ref = @ + 1]
    /\ rd' = [rd EXCEPT ![h].pc = "copy"]
    /\ UNCHANGED <<heap, nb_gen, now, jsonrpc_cache_expiration_time,
                   local_cache_lock, upd, crashed>>
    /\ UNCHANGED <<http_vars, codec_vars, pw_vars, plugin_vars>>

\* *ret_names = ...; *ret_times = ...; *ret_number = ...; unlock; return.
RefReturn(h) ==
    /\ crashed = "none"
    /\ rd[h].pc = "copy"
    /\ LET e == uc_cache_copy[rd[h].last_cache_entry]
       IN rd' = [rd EXCEPT ![h] = [RdIdle EXCEPT !.pc = "using",
                                                 !.names = e.names,
                                                 !.times = e.times,
                                                 !.number = e.number,
                                                 !.cache_id = rd[h].last_cache_entry]]
    /\ local_cache_lock' = 0
    /\ UNCHANGED <<uc_cache_copy, heap, nb_gen, now, jsonrpc_cache_expiration_time,
                   upd, crashed>>
    /\ UNCHANGED <<http_vars, codec_vars, pw_vars, plugin_vars>>

\* No ready slot: unlock and return -1; the handler gives up.
RefNone(h) ==
    /\ crashed = "none"
    /\ rd[h].pc = "ref"
    /\ rd[h].last_cache_entry = -1
    /\ rd' = [rd EXCEPT ![h] = RdIdle]
    /\ local_cache_lock' = 0
    /\ UNCHANGED <<uc_cache_copy, heap, nb_gen, now, jsonrpc_cache_expiration_time,
                   upd, crashed>>
    /\ UNCHANGED <<http_vars, codec_vars, pw_vars, plugin_vars>>

jsonrpc_cache_last_entry_find_and_ref(h) ==
    \/ RefLock(h)
    \/ RefScan(h)
    \/ RefIncrement(h)
    \/ RefReturn(h)
    \/ RefNone(h)

\* jsonrpc_cache_entry_unref(cache_id): lock; ref--; assert(ref >= 0); unlock.
jsonrpc_cache_entry_unref(h) ==
    /\ crashed = "none"
    /\ rd[h].pc = "using"
    /\ local_cache_lock = 0
    /\ uc_cache_copy' = [uc_cache_copy EXCEPT ![rd[h].cache_id].ref = @ - 1]
    /\ crashed' = IF uc_cache_copy[rd[h].cache_id].ref - 1 >= 0
                  THEN "none" ELSE "assert_ref"
    /\ rd' = [rd EXCEPT ![h] = RdIdle]
    /\ UNCHANGED <<heap, nb_gen, now, jsonrpc_cache_expiration_time,
                   local_cache_lock, upd>>
    /\ UNCHANGED <<http_vars, codec_vars, pw_vars, plugin_vars>>

(* ------------------------------ JSON-RPC codec ------------------------- *)
\* Program constants.
JSONRPC_CACHE_EXPIRATION_TIME_DEFAULT == 60
MAX_CLIENTS_DEFAULT == 16
MHD_HTTP_OK == 200
MHD_HTTP_BAD_REQUEST == 400
MHD_HTTP_INTERNAL_SERVER_ERROR == 500
MHD_HTTP_SERVICE_UNAVAILABLE == 503
JSONRPC_ERROR_CODE_32600_INVALID_REQUEST == -32600
JSONRPC_ERROR_CODE_32601_METHOD_NOT_FOUND == -32601
JSONRPC_ERROR_CODE_32602_INVALID_PARAMS == -32602
JSONRPC_ERROR_CODE_32603_INTERNAL_ERROR == -32603

\* A request object as jsonrpc_parse_node sees it:
\*   jsonrpc  the "jsonrpc" member: absent, the string "2.0", or another string;
\*   idk/idv  the "id" member: absent, an integer idv, or a value for which
\*            json_object_get_int gives 0 with errno set ("errno");
\*   method   the "method" member: absent, a name that is not in
\*            jsonrpc_methods_table ("unknown"), or one that is ("known");
\*   rc       what the callback of a known method returns for this request.
\* type is "other" for a batch element that is not a JSON object.
\* The callbacks of the source return 0, -32602 or -32603; 1 stands for a
\* positive code and -1 for a negative code outside -32603..-32600, returned
\* together with a message in *errorstring.
HandlerCodes == {0, 1, JSONRPC_ERROR_CODE_32602_INVALID_PARAMS, -1}

Nodes ==
    {n \in [type : {"object"},
            jsonrpc : {"absent", "2.0", "1.0"},
            idk : {"absent", "int", "errno"},
            idv : 0 .. MaxId,
            method : {"absent", "unknown", "known"},
            rc : HandlerCodes] :
        /\ n.idk # "int" => n.idv = 0
        /\ n.method # "known" => n.rc = 0}

NonObject == [type |-> "other", jsonrpc |-> "absent", idk |-> "absent", idv |-> 0,
              method |-> "absent", rc |-> 0]

Elements == Nodes \cup {NonObject}

BatchesOf(E) == UNION {[1 .. n -> E] : n \in 0 .. MaxBatch}

\* A request body after transport decoding: text that cannot be
\* percent-decoded, text that is not JSON, a JSON value that is neither object
\* nor array, one request object, or a batch.
BodiesOf(N) ==
    {[kind |-> k, node |-> NonObject, elems |-> <<>>] :
        k \in {"undecodable", "notjson", "scalar"}}
    \cup {[kind |-> "object", node |-> n, elems |-> <<>>] : n \in N}
    \cup {[kind |-> "array", node |-> NonObject, elems |-> b] :
            b \in BatchesOf(N \cup {NonObject})}

Bodies == BodiesOf(Nodes)

NoBody == [kind |-> "none", node |-> NonObject, elems |-> <<>>]

\* The request objects the concurrent front end is exercised with: a call that
\* succeeds, a call of an unknown method, and an object without "jsonrpc".
SampleNodes ==
    {n \in Nodes : /\ n.idk = "int"
                   /\ n.idv = 1
                   /\ \/ n.jsonrpc = "2.0" /\ n.method = "known" /\ n.rc = 0
                      \/ n.jsonrpc = "2.0" /\ n.method = "unknown"
                      \/ n.jsonrpc = "absent" /\ n.method = "unknown"}

SampleBodies ==
    {b \in BodiesOf(SampleNodes) :
        /\ b.kind # "scalar"
        /\ b.kind = "array" =>
              \A i \in 1 .. Len(b.elems) :
                 /\ i = 1
                 /\ b.elems[i].type = "object"
                 /\ b.elems[i].jsonrpc = "2.0"}

NoEnvelope == [kind |-> "none", code |-> 0, message |-> "", id |-> 0]

\* jsonrpc_build_error_object_string that writes 0 for the id.
jsonrpc_build_error_object_string_IdZero(id, code, message) ==
    [kind |-> "error",
     code |-> code,
     message |-> CASE code = JSONRPC_ERROR_CODE_32600_INVALID_REQUEST -> "Invalid Request."
                   [] code = JSONRPC_ERROR_CODE_32601_METHOD_NOT_FOUND -> "Method not found."
                   [] code = JSONRPC_ERROR_CODE_32602_INVALID_PARAMS -> "Invalid params."
                   [] code = JSONRPC_ERROR_CODE_32603_INTERNAL_ERROR -> "Internal error."
                   [] OTHER -> message,
     id |-> 0]

\* jsonrpc_build_error_object_string that keeps the message of the callback
\* for every code.
jsonrpc_build_error_object_string_CallerMessage(id, code, message) ==
    [kind |-> "error", code |-> code, message |-> message, id |-> id]

\* jsonrpc_build_error_object_string: jsonerrorstringformat filled in.
jsonrpc_build_error_object_string(id, code, message) ==
    [kind |-> "error",
     code |-> code,
     message |-> CASE code = JSONRPC_ERROR_CODE_32600_INVALID_REQUEST -> "Invalid Request."
                   [] code = JSONRPC_ERROR_CODE_32601_METHOD_NOT_FOUND -> "Method not found."
                   [] code = JSONRPC_ERROR_CODE_32602_INVALID_PARAMS -> "Invalid params."
                   [] code = JSONRPC_ERROR_CODE_32603_INTERNAL_ERROR -> "Internal error."
                   [] OTHER -> message,
     id |-> id]

\* id = json_object_get_int(v)
NodeId(n) == IF n.idk = "int" THEN n.idv ELSE 0

\* jsonrpc_parse_node with the checks on "jsonrpc" and "id" made only after
\* the callback of a known method has run.
jsonrpc_parse_node_ChecksAfterCall(n) ==
    IF n.jsonrpc # "2.0" \/ n.idk = "absent" \/ (NodeId(n) = 0 /\ n.idk = "errno")
    THEN [rc |-> -1, jsonanswer |-> NoEnvelope, called |-> n.method = "known"]
    ELSE IF n.method = "absent"
         THEN [rc |-> 0, called |-> FALSE,
               jsonanswer |-> jsonrpc_build_error_object_string(
                   NodeId(n), JSONRPC_ERROR_CODE_32600_INVALID_REQUEST, "")]
    ELSE IF n.method = "unknown"
         THEN [rc |-> 0, called |-> FALSE,
               jsonanswer |-> jsonrpc_build_error_object_string(
                   NodeId(n), JSONRPC_ERROR_CODE_32601_METHOD_NOT_FOUND, "")]
    ELSE IF n.rc # 0
         THEN IF n.rc > 0
              THEN [rc |-> 0, called |-> TRUE,
                    jsonanswer |-> jsonrpc_build_error_object_string(
                        NodeId(n), JSONRPC_ERROR_CODE_32603_INTERNAL_ERROR, "")]
              ELSE [rc |-> 0, called |-> TRUE,
                    jsonanswer |-> jsonrpc_build_error_object_string(
                        NodeId(n), n.rc, "errorstring")]
    ELSE [rc |-> 0, called |-> TRUE,
          jsonanswer |-> [kind |-> "result", code |-> 0, message |-> "",
                          id |-> NodeId(n)]]

\* jsonrpc_parse_node: [rc, jsonanswer, called]; jsonanswer is NoEnvelope for
\* NULL, called tells whether jsonrpc_methods_table[i].cb was executed.
jsonrpc_parse_node(n) ==
    IF n.jsonrpc # "2.0" THEN [rc |-> -1, jsonanswer |-> NoEnvelope, called |-> FALSE]
    ELSE IF n.idk = "absent" THEN [rc |-> -1, jsonanswer |-> NoEnvelope, called |-> FALSE]
    ELSE IF NodeId(n) = 0 /\ n.idk = "errno"
         THEN [rc |-> -1, jsonanswer |-> NoEnvelope, called |-> FALSE]
    ELSE IF n.method = "absent"
         THEN [rc |-> 0, called |-> FALSE,
               jsonanswer |-> jsonrpc_build_error_object_string(
                   NodeId(n), JSONRPC_ERROR_CODE_32600_INVALID_REQUEST, "")]
    ELSE IF n.method = "unknown"
         THEN [rc |-> 0, called |-> FALSE,
               jsonanswer |-> jsonrpc_build_error_object_string(
                   NodeId(n), JSONRPC_ERROR_CODE_32601_METHOD_NOT_FOUND, "")]
    ELSE IF n.rc # 0
         THEN IF n.rc > 0
              THEN [rc |-> 0, called |-> TRUE,
                    jsonanswer |-> jsonrpc_build_error_object_string(
                        NodeId(n), JSONRPC_ERROR_CODE_32603_INTERNAL_ERROR, "")]
              ELSE [rc |-> 0, called |-> TRUE,
                    jsonanswer |-> jsonrpc_build_error_object_string(
                        NodeId(n), n.rc, "errorstring")]
    ELSE [rc |-> 0, called |-> TRUE,
          jsonanswer |-> [kind |-> "result", code |-> 0, message |-> "",
                          id |-> NodeId(n)]]

\* con_info->answerstring: NULL, one envelope, or "[" envelopes joined by ", " "]".
NullAnswer == [isnull |-> TRUE, batch |-> FALSE, envs |-> <<>>]

\* PREPARE_ERROR_PAGE(code, string, mimetype)
PREPARE_ERROR_PAGE(code, string, mimetype) ==
    [answercode |-> code, answerstring |-> NullAnswer, errorpage |-> string,
     answer_mimetype |-> mimetype]

\* parse_batch that answers with the envelopes built so far when an element
\* is rejected.
RECURSIVE parse_batch_KeepsPartial(_, _, _, _)
parse_batch_KeepsPartial(elems, i, envs, errorpage) ==
    IF \/ i > Len(elems)
       \/ elems[i].type # "object"
       \/ jsonrpc_parse_node(elems[i]).rc # 0
    THEN [answercode |-> MHD_HTTP_OK,
          answerstring |-> [isnull |-> FALSE, batch |-> TRUE, envs |-> envs],
          errorpage |-> errorpage,
          answer_mimetype |-> "application/json-rpc"]
    ELSE parse_batch_KeepsPartial(elems, i + 1,
                                  Append(envs, jsonrpc_parse_node(elems[i]).jsonanswer),
                                  errorpage)

\* The loop of jsonrpc_parse_data over the elements of a batch, from element i
\* on, with the answer built so far.
RECURSIVE parse_batch(_, _, _, _)
parse_batch(elems, i, envs, errorpage) ==
    IF i > Len(elems)
    THEN [answercode |-> MHD_HTTP_OK,
          answerstring |-> [isnull |-> FALSE, batch |-> TRUE, envs |-> envs],
          errorpage |-> errorpage,
          answer_mimetype |-> "application/json-rpc"]
    ELSE IF elems[i].type = "object"
         THEN IF jsonrpc_parse_node(elems[i]).rc # 0
              THEN PREPARE_ERROR_PAGE(MHD_HTTP_BAD_REQUEST, "parseerrorpage", "text/html")
              ELSE parse_batch(elems, i + 1,
                               Append(envs, jsonrpc_parse_node(elems[i]).jsonanswer),
                               errorpage)
         ELSE PREPARE_ERROR_PAGE(MHD_HTTP_BAD_REQUEST, "parseerrorpage", "text/html")

\* jsonrpc_parse_data that answers a failed percent-decoding with status 500.
jsonrpc_parse_data_DecodeFailure500(encoding, body, errorpage) ==
    IF encoding = "JRE_WWW_FORM_URLENCODED" /\ body.kind = "undecodable"
    THEN PREPARE_ERROR_PAGE(MHD_HTTP_INTERNAL_SERVER_ERROR, "parseerrorpage",
                            "text/html")
    ELSE IF body.kind \in {"undecodable", "notjson"}
    THEN PREPARE_ERROR_PAGE(MHD_HTTP_BAD_REQUEST, "parseerrorpage", "text/html")
    ELSE IF body.kind = "array"
    THEN parse_batch(body.elems, 1, <<>>, errorpage)
    ELSE IF body.kind = "object"
    THEN IF jsonrpc_parse_node(body.node).rc = 0
         THEN [answercode |-> MHD_HTTP_OK,
               answerstring |-> [isnull |-> FALSE, batch |-> FALSE,
                                 envs |-> <<jsonrpc_parse_node(body.node).jsonanswer>>],
               errorpage |-> "NULL",
               answer_mimetype |-> "application/json-rpc"]
         ELSE PREPARE_ERROR_PAGE(MHD_HTTP_INTERNAL_SERVER_ERROR, "parseerrorpage",
                                 "text/html")
    ELSE PREPARE_ERROR_PAGE(MHD_HTTP_BAD_REQUEST, "parseerrorpage", "text/html")

\* jsonrpc_parse_data on a non-NULL jsonrequest: the answer fields it leaves in
\* con_info, whose error page was errorpage before the call.
jsonrpc_parse_data(encoding, body, errorpage) ==
    IF encoding = "JRE_WWW_FORM_URLENCODED" /\ body.kind = "undecodable"
    THEN PREPARE_ERROR_PAGE(MHD_HTTP_BAD_REQUEST, "parseerrorpage", "text/html")
    ELSE IF body.kind \in {"undecodable", "notjson"}
    THEN PREPARE_ERROR_PAGE(MHD_HTTP_BAD_REQUEST, "parseerrorpage", "text/html")
    ELSE IF body.kind = "array"
    THEN parse_batch(body.elems, 1, <<>>, errorpage)
    ELSE IF body.kind = "object"
    THEN IF jsonrpc_parse_node(body.node).rc = 0
         THEN [answercode |-> MHD_HTTP_OK,
               answerstring |-> [isnull |-> FALSE, batch |-> FALSE,
                                 envs |-> <<jsonrpc_parse_node(body.node).jsonanswer>>],
               errorpage |-> "NULL",
               answer_mimetype |-> "application/json-rpc"]
         ELSE PREPARE_ERROR_PAGE(MHD_HTTP_INTERNAL_SERVER_ERROR, "parseerrorpage",
                                 "text/html")
    ELSE PREPARE_ERROR_PAGE(MHD_HTTP_BAD_REQUEST, "parseerrorpage", "text/html")

\* The batch elements, from element i on, whose callback the loop of
\* jsonrpc_parse_data executes: the loop stops at the first rejected element.
RECURSIVE invoked_in_batch(_, _)
invoked_in_batch(elems, i) ==
    IF i > Len(elems) THEN <<>>
    ELSE IF elems[i].type # "object" THEN <<>>
    ELSE LET r == jsonrpc_parse_node(elems[i])
             here == IF r.called THEN <<i>> ELSE <<>>
         IN IF r.rc # 0 THEN here ELSE here \o invoked_in_batch(elems, i + 1)

\* The request objects of the body (1 for a single object, the position for a
\* batch element) whose callback jsonrpc_parse_data executes, in order.
handlers_invoked(encoding, body) ==
    IF body.kind = "array" THEN invoked_in_batch(body.elems, 1)
    ELSE IF body.kind = "object" /\ jsonrpc_parse_node(body.node).called THEN <<1>>
    ELSE <<>>

(* ------------------------------ HTTP front end ------------------------- *)
NoResponse == [status |-> 0, page |-> "none", mimetype |-> "none",
               close_connection |-> "none", result |-> "none"]

\* A connection with no request; con_cls is NULL.  con_info_block and
\* jsonrequest_block tell what became of the memory of the request: "none"
\* when it was never allocated, "live" from malloc or realloc on, "freed" after
\* free, "freed twice" after a second free.
ConClosed ==
    [pc |-> "closed", method |-> "none", content_type |-> "none", upload |-> 0,
     req |-> NoBody, con_cls |-> "NULL", connectiontype |-> "none",
     jsonrequest |-> "NULL", jsonrequest_size |-> 0,
     jsonrequest_encoding |-> "none", answerstring |-> NullAnswer,
     errorpage |-> "NULL", answercode |-> 0, answer_mimetype |-> "none",
     invoked |-> <<>>, response |-> NoResponse,
     con_info_block |-> "none", jsonrequest_block |-> "none"]

\* free(p) on the block p points to.
free(block) ==
    IF block = "live" THEN "freed" ELSE "freed twice"

InitHttp(clients) ==
    /\ max_clients \in clients
    /\ nb_clients = 0
    /\ nb_new_connections = 0
    /\ nb_jsonrpc_request_failed = 0
    /\ nb_jsonrpc_request_success = 0
    /\ nb_requests = 0
    /\ con = [c \in Conns |-> ConClosed]

\* A client sends a request on connection c: its method, its Content-Type and
\* the number of upload callbacks its body takes (0 for an empty body).
NewRequest(c, limit, chunks) ==
    /\ con[c].pc = "closed"
    /\ nb_requests < limit
    /\ nb_requests' = nb_requests + 1
    /\ \E m \in {"POST", "GET", "PUT"},
          t \in {"application/x-www-form-urlencoded", "application/json"},
          k \in chunks :
            /\ m # "POST" => (k = 0 /\ t = "application/json")
            /\ con' = [con EXCEPT ![c] = [ConClosed EXCEPT !.pc = "first",
                                                           !.method = m,
                                                           !.content_type = t,
                                                           !.upload = k]]
    /\ UNCHANGED <<max_clients, nb_clients, nb_new_connections,
                   nb_jsonrpc_request_failed, nb_jsonrpc_request_success>>
    /\ UNCHANGED <<cache_vars, codec_vars, pw_vars, plugin_vars>>

\* send_page that adds Connection: close to every response.
send_page_AlwaysClose(c, ci, page, status_code, mimetype, close_connection, result) ==
    /\ nb_jsonrpc_request_failed' =
          IF result = "JSONRPC_REQUEST_FAILED"
          THEN nb_jsonrpc_request_failed + 1 ELSE nb_jsonrpc_request_failed
    /\ nb_jsonrpc_request_success' =
          IF result = "JSONRPC_REQUEST_SUCCEEDED"
          THEN nb_jsonrpc_request_success + 1 ELSE nb_jsonrpc_request_success
    /\ con' = [con EXCEPT ![c] =
                 [ci EXCEPT !.pc = "sent",
                            !.response = [status |-> status_code,
                                          page |-> page,
                                          mimetype |-> mimetype,
                                          close_connection |-> "CLOSE_CONNECTION_YES",
                                          result |-> result]]]

\* send_page: count the result, then queue the response.
send_page(c, ci, page, status_code, mimetype, close_connection, result) ==
    /\ nb_jsonrpc_request_failed' =
          IF result = "JSONRPC_REQUEST_FAILED"
          THEN nb_jsonrpc_request_failed + 1 ELSE nb_jsonrpc_request_failed
    /\ nb_jsonrpc_request_success' =
          IF result = "JSONRPC_REQUEST_SUCCEEDED"
          THEN nb_jsonrpc_request_success + 1 ELSE nb_jsonrpc_request_success
    /\ con' = [con EXCEPT ![c] =
                 [ci EXCEPT !.pc = "sent",
                            !.response = [status |-> status_code,
                                          page |-> page,
                                          mimetype |-> mimetype,
                                          close_connection |-> close_connection,
                                          result |-> result]]]

\* The body of the page sent to a refused client.
busypage == [jsonrpc |-> "2.0",
             error |-> [code |-> -32400, message |-> "Too many connections"],
             id |-> "null"]

\* FirstCallbackCheck that counts the refused request as a new connection.
FirstCallbackCheck_CountsRefused(c) ==
    /\ con[c].pc = "first"
    /\ IF nb_clients >= max_clients
       THEN /\ send_page(c, con[c], "busypage", MHD_HTTP_SERVICE_UNAVAILABLE,
                         "application/json-rpc", "CLOSE_CONNECTION_YES",
                         "JSONRPC_REQUEST_FAILED")
            /\ nb_new_connections' = nb_new_connections + 1
       ELSE /\ con' = [con EXCEPT ![c].pc = "admit"]
            /\ UNCHANGED <<nb_jsonrpc_request_failed, nb_jsonrpc_request_success,
                           nb_new_connections>>
    /\ UNCHANGED <<max_clients, nb_clients, nb_requests>>
    /\ UNCHANGED <<cache_vars, codec_vars, pw_vars, plugin_vars>>

\* First callback, NULL == *con_cls: the test nb_clients >= max_clients.
FirstCallbackCheck(c) ==
    /\ con[c].pc = "first"
    /\ IF nb_clients >= max_clients
       THEN send_page(c, con[c], "busypage", MHD_HTTP_SERVICE_UNAVAILABLE,
                      "application/json-rpc", "CLOSE_CONNECTION_YES",
                      "JSONRPC_REQUEST_FAILED")
       ELSE /\ con' = [con EXCEPT ![c].pc = "admit"]
            /\ UNCHANGED <<nb_jsonrpc_request_failed, nb_jsonrpc_request_success>>
    /\ UNCHANGED <<cache_vars, codec_vars, pw_vars, plugin_vars>>
    /\ UNCHANGED <<max_clients, nb_clients, nb_new_connections, nb_requests>>
    /\ UNCHANGED <<cache_vars, codec_vars, pw_vars, plugin_vars>>

\* First callback, continued: malloc of con_info fails, return MHD_NO.
FirstCallbackNoMemory(c) ==
    /\ con[c].pc = "admit"
    /\ con' = [con EXCEPT ![c].pc = "refused"]
    /\ UNCHANGED <<max_clients, nb_clients, nb_new_connections,
                   nb_jsonrpc_request_failed, nb_jsonrpc_request_success,
                   nb_requests>>
    /\ UNCHANGED <<cache_vars, codec_vars, pw_vars, plugin_vars>>

\* jsonrequest_encoding after get_headers has seen the Content-Type header.
get_headers(content_type) ==
    IF content_type = "application/x-www-form-urlencoded"
    THEN "JRE_WWW_FORM_URLENCODED" ELSE "JRE_PLAIN"

\* First callback, continued: con_info is allocated and the counters go up.
FirstCallbackAdmit(c) ==
    /\ con[c].pc = "admit"
    /\ nb_new_connections' = nb_new_connections + 1
    /\ IF con[c].method = "POST"
       THEN /\ nb_clients' = nb_clients + 1
            /\ con' = [con EXCEPT ![c] =
                  [@ EXCEPT !.pc = "body",
                            !.con_cls = "con_info",
                            !.con_info_block = "live",
                            !.connectiontype = "POST",
                            !.jsonrequest_encoding = get_headers(con[c].content_type),
                            !.jsonrequest = "NULL",
                            !.jsonrequest_size = 0,
                            !.answercode = MHD_HTTP_BAD_REQUEST,
                            !.errorpage = "errorpage",
                            !.answerstring = NullAnswer,
                            !.answer_mimetype = "text/html"]]
       ELSE /\ nb_clients' = nb_clients
            /\ con' = [con EXCEPT ![c] = [@ EXCEPT !.pc = "body",
                                                   !.con_cls = "con_info",
                                                   !.con_info_block = "live",
                                                   !.connectiontype = "GET"]]
    /\ UNCHANGED <<max_clients, nb_jsonrpc_request_failed,
                   nb_jsonrpc_request_success, nb_requests>>
    /\ UNCHANGED <<cache_vars, codec_vars, pw_vars, plugin_vars>>

\* Later callback with method GET.
CallbackGet(c) ==
    /\ con[c].pc = "body"
    /\ con[c].method = "GET"
    /\ send_page(c, con[c], "errorpage", MHD_HTTP_BAD_REQUEST, "text/html",
                 "CLOSE_CONNECTION_YES", "JSONRPC_REQUEST_FAILED")
    /\ UNCHANGED <<max_clients, nb_clients, nb_new_connections, nb_requests>>
    /\ UNCHANGED <<cache_vars, codec_vars, pw_vars, plugin_vars>>

\* Later callback with a method that is neither GET nor POST.
CallbackUnknownMethod(c) ==
    /\ con[c].pc = "body"
    /\ con[c].method \notin {"GET", "POST"}
    /\ send_page(c, con[c], "errorpage", MHD_HTTP_BAD_REQUEST, "text/html",
                 "CLOSE_CONNECTION_YES", "JSONRPC_REQUEST_FAILED")
    /\ UNCHANGED <<max_clients, nb_clients, nb_new_connections, nb_requests>>
    /\ UNCHANGED <<cache_vars, codec_vars, pw_vars, plugin_vars>>

\* POST callback with 0 != *upload_data_size: the chunk is appended.
CallbackUpload(c) ==
    /\ con[c].pc = "body"
    /\ con[c].method = "POST"
    /\ con[c].upload > 0
    /\ con' = [con EXCEPT ![c] = [@ EXCEPT !.jsonrequest = "buf",
                                           !.jsonrequest_block = "live",
                                           !.jsonrequest_size = @ + 1,
                                           !.upload = @ - 1]]
    /\ UNCHANGED <<max_clients, nb_clients, nb_new_connections,
                   nb_jsonrpc_request_failed, nb_jsonrpc_request_success,
                   nb_requests>>
    /\ UNCHANGED <<cache_vars, codec_vars, pw_vars, plugin_vars>>

\* POST callback with upload data: realloc fails, jsonrequest becomes NULL and
\* the callback returns MHD_NO.  The block that held the earlier chunks stays
\* allocated.
CallbackUploadNoMemory(c) ==
    /\ con[c].pc = "body"
    /\ con[c].method = "POST"
    /\ con[c].upload > 0
    /\ con' = [con EXCEPT ![c] = [@ EXCEPT !.pc = "refused",
                                           !.jsonrequest = "NULL"]]
    /\ UNCHANGED <<max_clients, nb_clients, nb_new_connections,
                   nb_jsonrpc_request_failed, nb_jsonrpc_request_success,
                   nb_requests>>
    /\ UNCHANGED <<cache_vars, codec_vars, pw_vars, plugin_vars>>

\* POST callback with 0 == *upload_data_size and no body received.
CallbackNoBody(c) ==
    /\ con[c].pc = "body"
    /\ con[c].method = "POST"
    /\ con[c].upload = 0
    /\ con[c].jsonrequest = "NULL"
    /\ send_page(c, con[c], con[c].errorpage, con[c].answercode,
                 con[c].answer_mimetype, "CLOSE_CONNECTION_YES",
                 "JSONRPC_REQUEST_FAILED")
    /\ UNCHANGED <<max_clients, nb_clients, nb_new_connections, nb_requests>>
    /\ UNCHANGED <<cache_vars, codec_vars, pw_vars, plugin_vars>>

\* POST callback with 0 == *upload_data_size and the body `body` received:
\* jsonrpc_parse_data, then the answer or the error page is sent.
CallbackBody(c, bodies) ==
    /\ con[c].pc = "body"
    /\ con[c].method = "POST"
    /\ con[c].upload = 0
    /\ con[c].jsonrequest # "NULL"
    /\ \E body \in bodies :
       LET a == jsonrpc_parse_data(con[c].jsonrequest_encoding, body, con[c].errorpage)
           ci == [con[c] EXCEPT !.req = body,
                                !.invoked = handlers_invoked(
                                                con[c].jsonrequest_encoding, body),
                                !.answercode = a.answercode,
                                !.answerstring = a.answerstring,
                                !.errorpage = a.errorpage,
                                !.answer_mimetype = a.answer_mimetype]
       IN IF ~ci.answerstring.isnull
          THEN send_page(c, ci, "answerstring", ci.answercode, ci.answer_mimetype,
                         "CLOSE_CONNECTION_NO", "JSONRPC_REQUEST_SUCCEEDED")
          ELSE send_page(c, ci, ci.errorpage, ci.answercode, ci.answer_mimetype,
                         "CLOSE_CONNECTION_YES", "JSONRPC_REQUEST_FAILED")
    /\ UNCHANGED <<max_clients, nb_clients, nb_new_connections, nb_requests>>
    /\ UNCHANGED <<cache_vars, codec_vars, pw_vars, plugin_vars>>

\* POST callback with the body "[]": after the loop over no element,
\* answerstring is the 2-byte result of strdup("[") and
\* answerstring[l+1] = '\0' with l = 1 stores one byte past its end.  Either
\* the byte lands in the slack of the allocation, and the callback goes on as
\* CallbackBody does, or the heap is damaged: the connection thread is then
\* left at "corrupt", from where nothing is modelled.
CallbackBodyOverflow(c, bodies) ==
    /\ con[c].pc = "body"
    /\ con[c].method = "POST"
    /\ con[c].upload = 0
    /\ con[c].jsonrequest # "NULL"
    /\ \E body \in bodies :
          /\ body.kind = "array"
          /\ Len(body.elems) = 0
          /\ con' = [con EXCEPT ![c] = [@ EXCEPT !.pc = "corrupt", !.req = body]]
    /\ UNCHANGED <<max_clients, nb_clients, nb_new_connections,
                   nb_jsonrpc_request_failed, nb_jsonrpc_request_success,
                   nb_requests>>
    /\ UNCHANGED <<cache_vars, codec_vars, pw_vars, plugin_vars>>

\* request_completed that leaves *con_cls as it was.
request_completed_KeepsPointer(c) ==
    /\ con[c].pc \in {"sent", "refused"}
    /\ nb_clients' =
          IF /\ con[c].con_cls # "NULL"
             /\ con[c].connectiontype = "POST"
             /\ con[c].jsonrequest # "NULL"
          THEN nb_clients - 1
          ELSE nb_clients
    /\ con' = [con EXCEPT ![c] =
          IF con[c].con_cls = "NULL"
          THEN [ConClosed EXCEPT
                  !.con_info_block = con[c].con_info_block,
                  !.jsonrequest_block = con[c].jsonrequest_block]
          ELSE [ConClosed EXCEPT
                  !.con_cls = con[c].con_cls,
                  !.con_info_block = free(con[c].con_info_block),
                  !.jsonrequest_block =
                      IF con[c].connectiontype = "POST" /\ con[c].jsonrequest # "NULL"
                      THEN free(con[c].jsonrequest_block)
                      ELSE con[c].jsonrequest_block]]
    /\ UNCHANGED <<max_clients, nb_new_connections, nb_jsonrpc_request_failed,
                   nb_jsonrpc_request_success, nb_requests>>
    /\ UNCHANGED <<cache_vars, codec_vars, pw_vars, plugin_vars>>

\* request_completed, the MHD_OPTION_NOTIFY_COMPLETED hook: with a non-NULL
\* *con_cls it frees the body buffer of a POST, frees con_info and sets
\* *con_cls to NULL.
request_completed(c) ==
    /\ con[c].pc \in {"sent", "refused"}
    /\ nb_clients' =
          IF /\ con[c].con_cls # "NULL"
             /\ con[c].connectiontype = "POST"
             /\ con[c].jsonrequest # "NULL"
          THEN nb_clients - 1
          ELSE nb_clients
    /\ con' = [con EXCEPT ![c] =
          IF con[c].con_cls = "NULL"
          THEN [ConClosed EXCEPT
                  !.con_info_block = con[c].con_info_block,
                  !.jsonrequest_block = con[c].jsonrequest_block]
          ELSE [ConClosed EXCEPT
                  !.con_cls = "NULL",
                  !.con_info_block = free(con[c].con_info_block),
                  !.jsonrequest_block =
                      IF con[c].connectiontype = "POST" /\ con[c].jsonrequest # "NULL"
                      THEN free(con[c].jsonrequest_block)
                      ELSE con[c].jsonrequest_block]]
    /\ UNCHANGED <<max_clients, nb_new_connections, nb_jsonrpc_request_failed,
                   nb_jsonrpc_request_success, nb_requests>>
    /\ UNCHANGED <<cache_vars, codec_vars, pw_vars, plugin_vars>>

jsonrpc_proceed_request_cb(c, bodies) ==
    \/ FirstCallbackCheck(c)
    \/ FirstCallbackNoMemory(c)
    \/ FirstCallbackAdmit(c)
    \/ CallbackGet(c)
    \/ CallbackUnknownMethod(c)
    \/ CallbackUpload(c)
    \/ CallbackUploadNoMemory(c)
    \/ CallbackNoBody(c)
    \/ CallbackBody(c, bodies)
    \/ CallbackBodyOverflow(c, bodies)

(* ---------------------------- specifications --------------------------- *)
\* No body is being decoded.
DecIdle == [pc |-> "idle", jsonrequest |-> <<>>, jsonrequest_size |-> 0, l |-> 0]

\* No perfwatcher callback is running in the handler thread.
PwIdle == [pc |-> "idle", method |-> "none", rc |-> 0, cache_id |-> -1,
           names |-> 0, times |-> 0, number |-> 0, unref_calls |-> 0,
           servers |-> <<>>, servers_status |-> <<>>, metrics |-> {},
           cdtime |-> 0, result |-> <<>>, path |-> <<>>, opened |-> <<>>]

\* params without any member.
NoParams == [type |-> "object", timeout |-> 0, server |-> <<>>,
             hostname |-> <<>>, plugin |-> <<>>]

\* The value cache of the daemon is empty and no perfwatcher request arrives.
\* The threads that take the mutexes of the plugin: the handler threads
\* and, last, the read thread.
Threads == 1 .. (NumHandlers + 1)

Mutexes == {"local_cache_lock", "update_counters", "nb_clients_lock",
            "nb_new_connections_lock", "nb_jsonrpc_request_success_lock",
            "nb_jsonrpc_request_failed_lock"}

\* A thread outside every function that takes a mutex.  kind is the request
\* it serves and pc the next statement of ThreadSteps(kind), 0 when it serves
\* none; tmp is the value read by "+=", cache_id what
\* jsonrpc_cache_last_entry_find_and_ref returned, started the requests it
\* has begun and sent the responses MHD has queued for it.
ThrIdle == [kind |-> "none", pc |-> 0, tmp |-> 0, cache_id |-> -1,
            started |-> 0, sent |-> 0]

\* jsonrpc_read is not running and has submitted nothing yet.  submitted
\* lists the values handed to submit_gauge and submit_derive by the current
\* call, or by the last one, in the order of the calls.
ReadIdle == [pc |-> "idle", i |-> 0, update_time |-> 0,
             nb_entries_in_last_cache |-> 0, rc |-> 0, submitted |-> <<>>]

\* Nothing is configured, jsonrpc_read is not running and no mutex is held.
InitPlugin ==
    /\ httpd_server_port = -1
    /\ read = ReadIdle
    /\ mutex = [m \in Mutexes |-> 0]
    /\ thr = [t \in Threads |-> ThrIdle]

InitNoPerfwatcher ==
    /\ dec = DecIdle
    /\ uc_index = [g \in 1 .. MaxSnapshots |->
                      [names |-> <<>>, times |-> <<>>, number |-> 0]]
    /\ pw_params = NoParams
    /\ pw = [h \in Handlers |-> PwIdle]
    /\ InitPlugin

Init ==
    /\ InitCache(1 .. MaxExpiration)
    /\ InitHttp({MAX_CLIENTS_DEFAULT})
    /\ InitNoPerfwatcher

NextCache ==
    \/ ClockTick
    \/ jsonrpc_update_cache
    \/ \E h \in Handlers : jsonrpc_cache_last_entry_find_and_ref(h)
    \/ \E h \in Handlers : jsonrpc_cache_entry_unref(h)

Next == NextCache

Spec == Init /\ [][Next]_vars

\* The HTTP front end with NumConns concurrent connection threads.
InitHttpSpec ==
    /\ InitCache({JSONRPC_CACHE_EXPIRATION_TIME_DEFAULT})
    /\ InitHttp(1 .. MaxConfiguredClients)
    /\ InitNoPerfwatcher

NextHttp ==
    \E c \in Conns :
        \/ NewRequest(c, MaxRequests, 0 .. MaxChunks)
        \/ jsonrpc_proceed_request_cb(c, SampleBodies)
        \/ request_completed(c)

SpecHttp == InitHttpSpec /\ [][NextHttp]_vars

\* One request on one connection, with every request body.
InitRequestSpec ==
    /\ InitCache({JSONRPC_CACHE_EXPIRATION_TIME_DEFAULT})
    /\ InitHttp({MAX_CLIENTS_DEFAULT})
    /\ InitNoPerfwatcher

NextRequest ==
    \/ NewRequest(1, 1, 0 .. 1)
    \/ jsonrpc_proceed_request_cb(1, Bodies)
    \/ request_completed(1)

SpecRequest == InitRequestSpec /\ [][NextRequest]_vars

(* ------------------------------ jsonrpc_read --------------------------- *)
\* The statistics loop of jsonrpc_read over the table t, from slot i on: it
\* keeps the greatest update_time seen among the ready slots and that slot's
\* number (nb_entries_in_last_cache).
RECURSIVE read_last_cache_scan(_, _, _, _)
read_last_cache_scan(t, i, update_time, nb_entries_in_last_cache) ==
    IF i = NB_CACHE_ENTRY_MAX THEN nb_entries_in_last_cache
    ELSE IF t[i].ready = 1 /\ t[i].update_time > update_time
         THEN read_last_cache_scan(t, i + 1, t[i].update_time, t[i].number)
         ELSE read_last_cache_scan(t, i + 1, update_time, nb_entries_in_last_cache)

\* What jsonrpc_read publishes as "nb_values".
nb_entries_in_last_cache == read_last_cache_scan(uc_cache_copy, 0, 0, 0)

(* ----------------- the cache with one operation at a time -------------- *)
\* jsonrpc_update_cache, jsonrpc_cache_last_entry_find_and_ref and
\* jsonrpc_cache_entry_unref as functions of the table, for the executions in
\* which each call runs to its end before the next operation starts.

\* jsonrpc_cache_last_entry_find on the table t.
last_entry_of(t) == last_entry_scan(t, 0, 0, -1)

\* The slots that the "free old cache memory" loop reclaims in t.
\* Variant that spares the slots before the current one.
reclaimed_slots_AfterCurrentOnly(t, last_cache_entry) ==
    {i \in Slots : t[i].ready = 1 /\ t[i].ref = 0 /\ i > last_cache_entry}

reclaimed_slots(t, last_cache_entry) ==
    {i \in Slots : t[i].ready = 1 /\ t[i].ref = 0 /\ i # last_cache_entry}

\* The table after the "free old cache memory" loop: ref is left as it is.
\* Variant that frees the arrays of a reclaimed slot and leaves it ready.
free_old_cache_KeepsReady(t, last_cache_entry) ==
    [i \in Slots |->
        IF i \in reclaimed_slots(t, last_cache_entry)
        THEN [t[i] EXCEPT !.names = 0, !.times = 0,
                          !.number = 0, !.update_time = 0]
        ELSE t[i]]

free_old_cache(t, last_cache_entry) ==
    [i \in Slots |->
        IF i \in reclaimed_slots(t, last_cache_entry)
        THEN [t[i] EXCEPT !.ready = 0, !.names = 0, !.times = 0,
                          !.number = 0, !.update_time = 0]
        ELSE t[i]]

\* update_needed_in that ignores the expiration time.
update_needed_in_NoExpiration(t, last_cache_entry, expiration, tnow) ==
    IF last_cache_entry = -1 THEN 1
    ELSE IF t[last_cache_entry].update_time <= tnow
         THEN 1
         ELSE 0

\* "Check if update is needed" on the table t at the clock value tnow.
update_needed_in(t, last_cache_entry, expiration, tnow) ==
    IF last_cache_entry = -1 THEN 1
    ELSE IF t[last_cache_entry].update_time + expiration < tnow
         THEN 1
         ELSE 0

\* "Find free entry" on the table t.
free_entry_of(t) ==
    IF \E i \in Slots : t[i].ready = 0
    THEN CHOOSE i \in Slots : /\ t[i].ready = 0
                              /\ \A j \in Slots : j < i => t[j].ready # 0
    ELSE -1

\* Variant of the call below in which a failed uc_get_names leaves the
\* chosen slot marked ready.
jsonrpc_update_cache_call_FailureKeepsSlotReady(t, expiration, tnow, gen, ok) ==
    LET last_cache_entry == last_entry_of(t)
        t1 == free_old_cache(t, last_cache_entry)
        update_needed == update_needed_in(t1, last_cache_entry, expiration, tnow)
        free_cache_entry == free_entry_of(t1)
    IN IF update_needed = 0
       THEN [rc |-> 0, table |-> t1, called |-> FALSE, aborted |-> FALSE]
       ELSE IF free_cache_entry = -1
       THEN [rc |-> 0, table |-> t1, called |-> FALSE, aborted |-> TRUE]
       ELSE IF ~ok
       THEN [rc |-> -1,
             table |-> [t1 EXCEPT ![free_cache_entry] =
                          [EmptyEntry EXCEPT !.update_time = tnow, !.ready = 1]],
             called |-> TRUE, aborted |-> FALSE]
       ELSE [rc |-> 0,
             table |-> [t1 EXCEPT ![free_cache_entry] =
                          [names |-> gen, times |-> gen, number |-> gen,
                           update_time |-> tnow, ref |-> 0, ready |-> 1]],
             called |-> TRUE, aborted |-> FALSE]

\* One whole call of jsonrpc_update_cache on the table t at the clock value
\* tnow; gen is what uc_get_names stores when it succeeds (ok).
\*   rc       the return value (0 also stands for "aborted" when aborted);
\*   called   uc_get_names was called;
\*   aborted  the assertion on free_cache_entry failed.
jsonrpc_update_cache_call(t, expiration, tnow, gen, ok) ==
    LET last_cache_entry == last_entry_of(t)
        t1 == free_old_cache(t, last_cache_entry)
        update_needed == update_needed_in(t1, last_cache_entry, expiration, tnow)
        free_cache_entry == free_entry_of(t1)
    IN IF update_needed = 0
       THEN [rc |-> 0, table |-> t1, called |-> FALSE, aborted |-> FALSE]
       ELSE IF free_cache_entry = -1
       THEN [rc |-> 0, table |-> t1, called |-> FALSE, aborted |-> TRUE]
       ELSE IF ~ok
       THEN [rc |-> -1, table |-> [t1 EXCEPT ![free_cache_entry] = EmptyEntry],
             called |-> TRUE, aborted |-> FALSE]
       ELSE [rc |-> 0,
             table |-> [t1 EXCEPT ![free_cache_entry] =
                          [names |-> gen, times |-> gen, number |-> gen,
                           update_time |-> tnow, ref |-> 0, ready |-> 1]],
             called |-> TRUE, aborted |-> FALSE]

\* What the call of jsonrpc_update_cache made in the current state returns
\* and leaves in the table; uc_get_names, if called, succeeds when ok.
update_cache_now(ok) ==
    jsonrpc_update_cache_call(uc_cache_copy, jsonrpc_cache_expiration_time,
                              now, nb_gen + 1, ok)

\* One call of jsonrpc_update_cache on the table.
SeqUpdateTable(ok) ==
    /\ crashed = "none"
    /\ upd.pc = "idle"
    /\ local_cache_lock = 0
    /\ LET r == update_cache_now(ok)
           stored == r.called /\ r.rc = 0
           last_cache_entry == last_entry_of(uc_cache_copy)
           freed == {uc_cache_copy[i].names :
                        i \in reclaimed_slots(uc_cache_copy, last_cache_entry)}
       IN /\ stored => nb_gen < MaxSnapshots
          /\ uc_cache_copy' = r.table
          /\ heap' = (heap \ freed) \cup (IF stored THEN {nb_gen + 1} ELSE {})
          /\ nb_gen' = IF stored THEN nb_gen + 1 ELSE nb_gen
          /\ crashed' = IF r.aborted THEN "assert_free_cache_entry" ELSE "none"
    /\ UNCHANGED <<now, jsonrpc_cache_expiration_time, local_cache_lock, upd, rd>>
    /\ UNCHANGED <<http_vars, codec_vars, pw_vars>>

\* The read thread runs one call of jsonrpc_update_cache.
SeqUpdate ==
    /\ \E ok \in BOOLEAN : SeqUpdateTable(ok)
    /\ UNCHANGED plugin_vars

\* Handler h runs one call of jsonrpc_cache_last_entry_find_and_ref.
SeqAcquire(h) ==
    /\ crashed = "none"
    /\ upd.pc = "idle"
    /\ rd[h].pc = "idle"
    /\ local_cache_lock = 0
    /\ LET last_cache_entry == last_entry_of(uc_cache_copy)
       IN IF last_cache_entry = -1
          THEN UNCHANGED <<uc_cache_copy, rd>>
          ELSE /\ uc_cache_copy' =
                     [uc_cache_copy EXCEPT ![last_cache_entry].ref = @ + 1]
               /\ rd' = [rd EXCEPT ![h] =
                     [RdIdle EXCEPT !.pc = "using",
                                    !.names = uc_cache_copy[last_cache_entry].names,
                                    !.times = uc_cache_copy[last_cache_entry].times,
                                    !.number = uc_cache_copy[last_cache_entry].number,
                                    !.cache_id = last_cache_entry]]
    /\ UNCHANGED <<heap, nb_gen, now, jsonrpc_cache_expiration_time,
                   local_cache_lock, upd, crashed>>
    /\ UNCHANGED <<http_vars, codec_vars, pw_vars, plugin_vars>>

NextSeq ==
    \/ ClockTick
    \/ SeqUpdate
    \/ \E h \in Handlers : SeqAcquire(h) \/ jsonrpc_cache_entry_unref(h)

SpecSeq == Init /\ [][NextSeq]_vars

(* ------------------------- the read callback -------------------------- *)
\* The type instances of the per-slot gauges.
cache_plugin_instance == <<"0", "1", "2", "3", "4", "5", "6", "7", "8", "9">>

\* submit_gauge and submit_derive: one value handed to collectd.
submit(n, type, type_instance) ==
    [type |-> type, type_instance |-> type_instance, value |-> n]

\* Variant: the ready snapshot count is submitted with the counters, before
\* jsonrpc_update_cache is called.
ReadPublishCounters_CacheSizeFirst ==
    /\ crashed = "none"
    /\ read.pc = "idle"
    /\ read' = [ReadIdle EXCEPT
                  !.pc = "update",
                  !.submitted =
                     <<submit(nb_clients, "current_connections", "nb_clients"),
                       submit(nb_jsonrpc_request_failed, "total_requests",
                              "nb_request_failed"),
                       submit(nb_jsonrpc_request_success, "total_requests",
                              "nb_request_succeeded"),
                       submit(nb_new_connections, "http_requests",
                              "nb_connections"),
                       submit(jsonrpc_cache_nb_entries, "cache_size",
                              "nb_used_cached")>>]
    /\ UNCHANGED <<cache_vars, http_vars, codec_vars, pw_vars,
                   httpd_server_port, mutex, thr>>

\* jsonrpc_read submits the connection and request counters.
ReadPublishCounters ==
    /\ crashed = "none"
    /\ read.pc = "idle"
    /\ read' = [ReadIdle EXCEPT
                  !.pc = "update",
                  !.submitted =
                     <<submit(nb_clients, "current_connections", "nb_clients"),
                       submit(nb_jsonrpc_request_failed, "total_requests",
                              "nb_request_failed"),
                       submit(nb_jsonrpc_request_success, "total_requests",
                              "nb_request_succeeded"),
                       submit(nb_new_connections, "http_requests",
                              "nb_connections")>>]
    /\ UNCHANGED <<cache_vars, http_vars, codec_vars, pw_vars,
                   httpd_server_port, mutex, thr>>

\* jsonrpc_read calls jsonrpc_update_cache; rc is what the call returns,
\* which jsonrpc_read does not look at.
ReadUpdate ==
    /\ read.pc = "update"
    /\ \E ok \in BOOLEAN :
          /\ SeqUpdateTable(ok)
          /\ read' = [read EXCEPT !.pc = "nb_used_cached",
                                  !.rc = update_cache_now(ok).rc]
    /\ UNCHANGED <<httpd_server_port, mutex, thr>>

\* jsonrpc_read submits jsonrpc_cache_nb_entries(), read without the lock.
ReadNbEntries ==
    /\ crashed = "none"
    /\ read.pc = "nb_used_cached"
    /\ read' = [read EXCEPT
                  !.pc = "cache_entries",
                  !.i = 0,
                  !.submitted = Append(@, submit(jsonrpc_cache_nb_entries,
                                                 "cache_size", "nb_used_cached"))]
    /\ UNCHANGED <<cache_vars, http_vars, codec_vars, pw_vars,
                   httpd_server_port, mutex, thr>>

\* One round of the statistics loop: slot i is read inside local_cache_lock
\* and its reference count is submitted once the lock is released.
ReadSlot ==
    /\ crashed = "none"
    /\ read.pc = "cache_entries"
    /\ read.i < NB_CACHE_ENTRY_MAX
    /\ local_cache_lock = 0
    /\ LET e == uc_cache_copy[read.i]
           n == IF e.ready = 1 THEN e.ref ELSE 0
           later == e.ready = 1 /\ e.update_time > read.update_time
       IN read' = [read EXCEPT
                     !.i = @ + 1,
                     !.update_time = IF later THEN e.update_time ELSE @,
                     !.nb_entries_in_last_cache = IF later THEN e.number ELSE @,
                     !.submitted = Append(@, submit(n, "cache_entries",
                                            cache_plugin_instance[read.i + 1]))]
    /\ UNCHANGED <<cache_vars, http_vars, codec_vars, pw_vars,
                   httpd_server_port, mutex, thr>>

\* After the loop jsonrpc_read submits the entry count of the latest
\* snapshot and returns.
ReadReturn ==
    /\ crashed = "none"
    /\ read.pc = "cache_entries"
    /\ read.i = NB_CACHE_ENTRY_MAX
    /\ read' = [read EXCEPT
                  !.pc = "idle",
                  !.submitted = Append(@, submit(read.nb_entries_in_last_cache,
                                                 "nb_values", ""))]
    /\ UNCHANGED <<cache_vars, http_vars, codec_vars, pw_vars,
                   httpd_server_port, mutex, thr>>

jsonrpc_read ==
    \/ ReadPublishCounters
    \/ ReadUpdate
    \/ ReadNbEntries
    \/ ReadSlot
    \/ ReadReturn

NextRead ==
    \/ ClockTick
    \/ jsonrpc_read
    \/ \E h \in Handlers : SeqAcquire(h) \/ jsonrpc_cache_entry_unref(h)

\* The read callback, called again and again by collectd, beside the
\* handlers; jsonrpc_update_cache is called nowhere else.
SpecRead == Init /\ [][NextRead]_vars

\* The same when collectd keeps calling the read callback, each call runs
\* to its end, and a handler that holds a snapshot ends up releasing it.
SpecReadFair ==
    /\ SpecRead
    /\ WF_vars(jsonrpc_read)
    /\ \A h \in Handlers : WF_vars(jsonrpc_cache_entry_unref(h))

(* ------------------------------ configuration ------------------------- *)
\* jsonrpc_config(key, val) with strtol(val) = n, from the settings cur: the
\* value is stored first and its range is tested afterwards, so that a
\* rejected value stays in place.
jsonrpc_config(key, n, cur) ==
    IF key = "Port"
    THEN [rc |-> IF n < 1 \/ n > 65535 THEN -1 ELSE 0,
          httpd_server_port |-> n,
          max_clients |-> cur.max_clients,
          jsonrpc_cache_expiration_time |-> cur.jsonrpc_cache_expiration_time]
    ELSE IF key = "MaxClients"
    THEN [rc |-> IF n < 1 \/ n > 65535 THEN -1 ELSE 0,
          httpd_server_port |-> cur.httpd_server_port,
          max_clients |-> n,
          jsonrpc_cache_expiration_time |-> cur.jsonrpc_cache_expiration_time]
    ELSE IF key = "JsonrpcCacheExpirationTime"
    THEN [rc |-> IF n < 1 \/ n > 3600 THEN -1 ELSE 0,
          httpd_server_port |-> cur.httpd_server_port,
          max_clients |-> cur.max_clients,
          jsonrpc_cache_expiration_time |-> n]
    ELSE [rc |-> -1,
          httpd_server_port |-> cur.httpd_server_port,
          max_clients |-> cur.max_clients,
          jsonrpc_cache_expiration_time |-> cur.jsonrpc_cache_expiration_time]

\* The settings before any configuration callback.
DefaultSettings ==
    [rc |-> 0, httpd_server_port |-> -1,
     max_clients |-> MAX_CLIENTS_DEFAULT,
     jsonrpc_cache_expiration_time |-> JSONRPC_CACHE_EXPIRATION_TIME_DEFAULT]

\* The numbers a configuration file gives for JsonrpcCacheExpirationTime.
ConfigValues == (0 - MaxExpiration) .. MaxExpiration

\* The cache after one JsonrpcCacheExpirationTime line, accepted or rejected.
InitConfigured ==
    /\ InitCache({jsonrpc_config("JsonrpcCacheExpirationTime", n, DefaultSettings)
                      .jsonrpc_cache_expiration_time : n \in ConfigValues})
    /\ InitHttp({MAX_CLIENTS_DEFAULT})
    /\ InitNoPerfwatcher

\* The cache operations, one at a time, after such a configuration.
SpecConfigured == InitConfigured /\ [][NextSeq]_vars

\* The keys of the configuration lines collectd hands to the plugin; the
\* last one is a key the plugin does not know.
ConfigKeys == {"Port", "MaxClients", "JsonrpcCacheExpirationTime", "DataDir"}

\* The numbers strtol reads from the values: the ends of both ranges and
\* their neighbours.
ConfigNumbers == {-1, 0, 1, 2, 3600, 3601, 65535, 65536}

\* The settings in force.
CurrentSettings ==
    [rc |-> 0, httpd_server_port |-> httpd_server_port,
     max_clients |-> max_clients,
     jsonrpc_cache_expiration_time |-> jsonrpc_cache_expiration_time]

\* collectd calls jsonrpc_config for one line of the configuration file.
Config(key, n) ==
    LET r == jsonrpc_config(key, n, CurrentSettings) IN
    /\ httpd_server_port' = r.httpd_server_port
    /\ max_clients' = r.max_clients
    /\ jsonrpc_cache_expiration_time' = r.jsonrpc_cache_expiration_time
    /\ UNCHANGED <<uc_cache_copy, heap, nb_gen, now, local_cache_lock, upd, rd,
                   crashed, nb_clients, nb_new_connections,
                   nb_jsonrpc_request_failed, nb_jsonrpc_request_success,
                   nb_requests, con, codec_vars, pw_vars, read, mutex, thr>>

NextConfig == \E key \in ConfigKeys, n \in ConfigNumbers : Config(key, n)

\* The plugin as loaded: the settings have the values of their initializers.
InitConfig ==
    /\ InitCache({JSONRPC_CACHE_EXPIRATION_TIME_DEFAULT})
    /\ InitHttp({MAX_CLIENTS_DEFAULT})
    /\ InitNoPerfwatcher

\* The configuration phase: any sequence of configuration lines, before
\* jsonrpc_init.
SpecConfig == InitConfig /\ [][NextConfig]_vars

(* ---------------------- decode_from_www_urlencoded ---------------------- *)
\* A byte is its character code; a buffer is the sequence of its bytes, so
\* that the C expression s[k] is buf[k + 1].
NUL == 0
SPACE == 32
PERCENT == 37
PLUS == 43

\* ishex that does not know the digits a to f.
ishex_NoLowerCase(c) ==
    (c >= 48 /\ c <= 57) \/ (c >= 65 /\ c <= 70)

\* ishex(c): '0'..'9', 'a'..'f', 'A'..'F'
ishex(c) ==
    (c >= 48 /\ c <= 57) \/ (c >= 97 /\ c <= 102) \/ (c >= 65 /\ c <= 70)

\* The value of one hexadecimal digit.
hexdigit(c) ==
    IF c <= 57 THEN c - 48 ELSE IF c <= 70 THEN c - 55 ELSE c - 87

\* sscanf(s - 2, "%2x", &c) on two hexadecimal digits.
sscanf_2x(d1, d2) == 16 * hexdigit(d1) + hexdigit(d2)

\* The for loop of decode_from_www_urlencoded: s and o are the offsets of the
\* pointers s and o from dest, end is l.  The result is the return value and
\* the buffer as the loop leaves it.
RECURSIVE decode_loop(_, _, _, _)
decode_loop(buf, s, o, end) ==
    IF s > end THEN [rc |-> o, buf |-> buf]
    ELSE LET c == buf[s + 1]
         IN IF c = PLUS
            THEN decode_loop([buf EXCEPT ![o + 1] = SPACE], s + 1, o + 1, end)
            ELSE IF c = PERCENT
            THEN IF ~ishex(buf[s + 2]) THEN [rc |-> -1, buf |-> buf]
                 ELSE IF ~ishex(buf[s + 3]) THEN [rc |-> -1, buf |-> buf]
                 ELSE decode_loop([buf EXCEPT ![o + 1] =
                                      sscanf_2x(buf[s + 2], buf[s + 3])],
                                  s + 3, o + 1, end)
            ELSE decode_loop([buf EXCEPT ![o + 1] = c], s + 1, o + 1, end)

decode_from_www_urlencoded(s, l) == decode_loop(s, 0, 0, l)

\* The C string that starts at buf[0]: the bytes before the first NUL.
RECURSIVE CString(_)
CString(buf) ==
    IF buf = <<>> \/ Head(buf) = NUL THEN <<>>
    ELSE <<Head(buf)>> \o CString(Tail(buf))

\* The request texts: ' ', '%', '+', '4' and 'A'.
TextBytes == {SPACE, PERCENT, PLUS, 52, 65}

Texts == UNION {[1 .. n -> TextBytes] : n \in 0 .. MaxText}

\* The characters that write the 4-bit value v as a hexadecimal digit.
HexDigitsOf(v) == IF v < 10 THEN {48 + v} ELSE {55 + v, 87 + v}

\* The ways application/x-www-form-urlencoded writes the byte b: a space as
\* "+" or "%20", "%" and "+" as %HH, any other byte as itself or as %HH.
FormsOf(b) ==
    {<<PERCENT, h, d>> : h \in HexDigitsOf(b \div 16), d \in HexDigitsOf(b % 16)}
    \cup (IF b = SPACE THEN {<<PLUS>>}
          ELSE IF b \in {PERCENT, PLUS} THEN {}
          ELSE {<<b>>})

RECURSIVE EncodingsOf(_)
EncodingsOf(x) ==
    IF x = <<>> THEN {<<>>}
    ELSE {f \o r : f \in FormsOf(Head(x)), r \in EncodingsOf(Tail(x))}

\* The bodies a client uploads with Content-Type
\* application/x-www-form-urlencoded: the encodings of the texts, and what is
\* left of them when the upload is cut short.
UploadedBodies ==
    UNION {{SubSeq(e, 1, k) : k \in 0 .. Len(e)} :
              e \in UNION {EncodingsOf(x) : x \in Texts}}

\* The last callback has stored the terminating NUL behind the uploaded bytes
\* and jsonrpc_parse_data is about to run on a form-encoded request.
InitDecode ==
    /\ InitCache({JSONRPC_CACHE_EXPIRATION_TIME_DEFAULT})
    /\ InitHttp({MAX_CLIENTS_DEFAULT})
    /\ uc_index = [g \in 1 .. MaxSnapshots |->
                      [names |-> <<>>, times |-> <<>>, number |-> 0]]
    /\ pw_params = NoParams
    /\ pw = [h \in Handlers |-> PwIdle]
    /\ InitPlugin
    /\ \E upload_data \in UploadedBodies :
          dec = [pc |-> "received",
                 upload_data |-> upload_data,
                 jsonrequest |-> upload_data \o <<NUL>>,
                 jsonrequest_size |-> Len(upload_data),
                 l |-> 0]

\* jsonrpc_parse_data, the branch for JRE_WWW_FORM_URLENCODED: the buffer is
\* decoded in place; l < 0 ends the request with the parse-error page.
ParseDataDecode ==
    /\ dec.pc = "received"
    /\ LET r == decode_from_www_urlencoded(dec.jsonrequest, dec.jsonrequest_size)
       IN dec' = [dec EXCEPT !.pc = IF r.rc < 0 THEN "failed" ELSE "decoded",
                             !.l = r.rc,
                             !.jsonrequest =
                                 IF r.rc < 0
                                 THEN [r.buf EXCEPT ![dec.jsonrequest_size + 1] = NUL]
                                 ELSE r.buf]
    /\ UNCHANGED <<cache_vars, http_vars, pw_vars, plugin_vars>>

NextDecode == ParseDataDecode

SpecDecode == InitDecode /\ [][NextDecode]_vars

(* -------------------------- perfwatcher callbacks ----------------------- *)
\* Strings are sequences of character codes; 97 to 100 are 'a' to 'd'.
SLASH == 47

\* strcmp(a, b) < 0
RECURSIVE strcmp_less(_, _)
strcmp_less(a, b) ==
    IF b = <<>> THEN FALSE
    ELSE IF a = <<>> THEN TRUE
    ELSE IF Head(a) # Head(b) THEN Head(a) < Head(b)
    ELSE strcmp_less(Tail(a), Tail(b))

\* The keys of a c_avl tree created with strcmp, in the order in which
\* c_avl_iterator_next returns them.
RECURSIVE c_avl_iterate(_)
c_avl_iterate(keys) ==
    IF keys = {} THEN <<>>
    ELSE LET first == CHOOSE k \in keys : \A o \in keys : o = k \/ strcmp_less(k, o)
         IN <<first>> \o c_avl_iterate(keys \ {first})

\* The names the daemon holds values for: a/c, a/c/d, ab/c and b/c.
NamePool == {<<97, SLASH, 99>>, <<97, SLASH, 99, SLASH, 100>>,
             <<97, 98, SLASH, 99>>, <<98, SLASH, 99>>}

\* cdtime() while time(NULL) is t.
CdtimesAt(t) == {t * CdtimePerSecond + frac : frac \in 0 .. (CdtimePerSecond - 1)}

\* The last-update times of the values: the start of second 2, late in
\* second 4, the start of second 6.
SampleTimes == {2 * CdtimePerSecond, 4 * CdtimePerSecond + 1, 6 * CdtimePerSecond}

\* What uc_get_names can hand out: the names of the value cache in the order
\* of its tree, with their times.
Indexes ==
    UNION {{[names |-> c_avl_iterate(S), times |-> t, number |-> Cardinality(S)] :
               t \in [1 .. Cardinality(S) -> SampleTimes]} :
              S \in {T \in SUBSET NamePool : Cardinality(T) <= MaxNames}}

\* The servers a request asks for: a, ab, b.
ServerPool == {<<97>>, <<97, 98>>, <<98>>}

ServerArrays == UNION {[1 .. n -> ServerPool] : n \in 0 .. MaxServers}

\* The timeout member of a request, in seconds.
SampleTimeouts == {-1, 0, 2, MaxTime + 1}

\* The params of a request: the object pw_get_status expects, or the array
\* pw_get_metric expects.
ParamsOf(timeouts, arrays) ==
    {[type |-> "object", timeout |-> t, server |-> a, hostname |-> <<>>,
      plugin |-> <<>>] : t \in timeouts, a \in arrays}
    \cup {[type |-> "array", timeout |-> 0, server |-> a, hostname |-> <<>>,
           plugin |-> <<>>] : a \in arrays}

\* The arrays a snapshot points to: uc_index[g] is what the g-th successful
\* uc_get_names stored.
snapshot_names(names) == uc_index[names].names
snapshot_times(times) == uc_index[times].times
snapshot_number(number) == uc_index[number].number

\* for(j=0; names[i][j] && names[i][j] != '/'; j++);
RECURSIVE host_length(_, _)
host_length(name, j) ==
    IF j >= Len(name) THEN j
    ELSE IF name[j + 1] = SLASH THEN j
    ELSE host_length(name, j + 1)

\* The servers tree after the c_avl_insert calls: each key with the index of
\* the element of servers_status it points to.  An insert of a key that is
\* already in the tree changes nothing.
servers_tree(server) ==
    [k \in {server[i] : i \in 1 .. Len(server)} |->
        CHOOSE i \in 1 .. Len(server) :
            /\ server[i] = k
            /\ \A j \in 1 .. (i - 1) : server[j] # k]

\* (cdtime_t) t * 2^30, in the width of cdtime_t
TIME_T_TO_CDTIME_T(t) == (t * CdtimePerSecond) % (2 ^ CdtimeBits)

\* "Parse the cache and update the servers_status array", from name i on.
RECURSIVE status_scan(_, _, _, _, _)
status_scan(names, times, i, tree, servers_status) ==
    IF i > Len(names) THEN servers_status
    ELSE LET buffer == SubSeq(names[i], 1, host_length(names[i], 0))
         IN IF /\ buffer \in DOMAIN tree
               /\ times[i] > servers_status[tree[buffer]]
            THEN status_scan(names, times, i + 1, tree,
                             [servers_status EXCEPT ![tree[buffer]] = times[i]])
            ELSE status_scan(names, times, i + 1, tree, servers_status)

\* server_state that also writes "up" for a time equal to the threshold.
server_state_UpAtThreshold(status, now_before_timeout) ==
    IF status = 0 THEN "unknown"
    ELSE IF status >= now_before_timeout THEN "up"
    ELSE "down"

\* The state written for a server whose *status_ptr is status.
server_state(status, now_before_timeout) ==
    IF status = 0 THEN "unknown"
    ELSE IF status > now_before_timeout THEN "up"
    ELSE "down"

\* "Check the servers and build the result array": the members of the result
\* object, in the order of the tree.
status_result(tree, servers_status, cdtime, timeout) ==
    LET now_before_timeout ==
            (cdtime - TIME_T_TO_CDTIME_T(timeout)) % (2 ^ CdtimeBits)
        keys == c_avl_iterate(DOMAIN tree)
    IN [n \in 1 .. Len(keys) |->
           [key |-> keys[n],
            state |-> server_state(servers_status[tree[keys[n]]],
                                   now_before_timeout)]]

\* metric_scan that does not look the host up in the servers tree.
RECURSIVE metric_scan_AnyServer(_, _, _, _)
metric_scan_AnyServer(names, i, servers, metrics) ==
    IF i > Len(names) THEN metrics
    ELSE LET j == host_length(names[i], 0)
             m == SubSeq(names[i], j + 2, Len(names[i]))
         IN IF m \notin metrics
            THEN metric_scan_AnyServer(names, i + 1, servers, metrics \cup {m})
            ELSE metric_scan_AnyServer(names, i + 1, servers, metrics)

\* "Parse the cache and update the metrics list", from name i on.
RECURSIVE metric_scan(_, _, _, _)
metric_scan(names, i, servers, metrics) ==
    IF i > Len(names) THEN metrics
    ELSE LET j == host_length(names[i], 0)
             buffer == SubSeq(names[i], 1, j)
             m == SubSeq(names[i], j + 2, Len(names[i]))
         IN IF buffer \in servers /\ m \notin metrics
            THEN metric_scan(names, i + 1, servers, metrics \cup {m})
            ELSE metric_scan(names, i + 1, servers, metrics)

\* entry_unref that leaves the reference in place.
entry_unref_KeepsRef(t, cache_id) == t

\* The table t after jsonrpc_cache_entry_unref(cache_id).
entry_unref(t, cache_id) == [t EXCEPT ![cache_id].ref = @ - 1]

\* A callback that has returned rc.
PwDone(method, rc, unref_calls) ==
    [PwIdle EXCEPT !.pc = "done", !.method = method, !.rc = rc,
                   !.unref_calls = unref_calls]

\* cache_id_is_minus_1 that blames the params.
cache_id_is_minus_1_InvalidParams(method) ==
    PwDone(method, JSONRPC_ERROR_CODE_32602_INVALID_PARAMS, 0)

\* if (cache_id == -1): the callback returns without jsonrpc_cache_entry_unref.
cache_id_is_minus_1(method) ==
    PwDone(method, JSONRPC_ERROR_CODE_32603_INTERNAL_ERROR, 0)

\* jsonrpc_cb_pw_get_status / jsonrpc_cb_pw_get_metric up to and including
\* jsonrpc_cache_last_entry_find_and_ref.  ok is FALSE when c_avl_create or
\* malloc fails.
PwAcquire(h) ==
    /\ crashed = "none"
    /\ upd.pc = "idle"
    /\ local_cache_lock = 0
    /\ pw[h].pc = "idle"
    /\ \E method \in {"pw_get_status", "pw_get_metric"}, ok \in BOOLEAN :
          LET last_cache_entry == last_entry_of(uc_cache_copy)
          IN IF \/ method = "pw_get_status" /\ pw_params.type # "object"
                \/ method = "pw_get_metric" /\ pw_params.type # "array"
             THEN /\ pw' = [pw EXCEPT ![h] =
                           PwDone(method, JSONRPC_ERROR_CODE_32602_INVALID_PARAMS, 0)]
                  /\ UNCHANGED uc_cache_copy
             ELSE IF ~ok
             THEN /\ pw' = [pw EXCEPT ![h] =
                           PwDone(method, JSONRPC_ERROR_CODE_32603_INTERNAL_ERROR, 0)]
                  /\ UNCHANGED uc_cache_copy
             ELSE IF last_cache_entry = -1
             THEN /\ pw' = [pw EXCEPT ![h] = cache_id_is_minus_1(method)]
                  /\ UNCHANGED uc_cache_copy
             ELSE /\ uc_cache_copy' =
                        [uc_cache_copy EXCEPT ![last_cache_entry].ref = @ + 1]
                  /\ pw' = [pw EXCEPT ![h] =
                        [PwIdle EXCEPT
                           !.pc = "scan",
                           !.method = method,
                           !.cache_id = last_cache_entry,
                           !.names = uc_cache_copy[last_cache_entry].names,
                           !.times = uc_cache_copy[last_cache_entry].times,
                           !.number = uc_cache_copy[last_cache_entry].number,
                           !.servers = pw_params.server,
                           !.servers_status =
                               [i \in 1 .. Len(pw_params.server) |-> 0]]]
    /\ UNCHANGED <<heap, nb_gen, now, jsonrpc_cache_expiration_time,
                   local_cache_lock, upd, rd, crashed>>
    /\ UNCHANGED <<http_vars, codec_vars, uc_index, pw_params, plugin_vars>>

\* The loop over the names of the snapshot, then jsonrpc_cache_entry_unref.
\* ok is FALSE when realloc or strdup fails, which needs a name to work on.
PwScan(h) ==
    /\ crashed = "none"
    /\ upd.pc = "idle"
    /\ local_cache_lock = 0
    /\ pw[h].pc = "scan"
    /\ \E ok \in BOOLEAN :
          LET names == snapshot_names(pw[h].names)
              times == snapshot_times(pw[h].times)
              number == snapshot_number(pw[h].number)
              tree == servers_tree(pw[h].servers)
          IN IF ~ok /\ number > 0
             THEN pw' = [pw EXCEPT ![h] =
                     PwDone(pw[h].method, JSONRPC_ERROR_CODE_32603_INTERNAL_ERROR, 1)]
             ELSE IF pw[h].method = "pw_get_status"
             THEN pw' = [pw EXCEPT ![h] =
                     [@ EXCEPT !.pc = "answer",
                               !.unref_calls = 1,
                               !.servers_status =
                                   status_scan(names, times, 1, tree,
                                               pw[h].servers_status)]]
             ELSE pw' = [pw EXCEPT ![h] =
                     [@ EXCEPT !.pc = "answer",
                               !.unref_calls = 1,
                               !.metrics = metric_scan(names, 1, DOMAIN tree, {})]]
    /\ uc_cache_copy' = entry_unref(uc_cache_copy, pw[h].cache_id)
    /\ crashed' = IF uc_cache_copy'[pw[h].cache_id].ref >= 0
                  THEN "none" ELSE "assert_ref"
    /\ UNCHANGED <<heap, nb_gen, now, jsonrpc_cache_expiration_time,
                   local_cache_lock, upd, rd>>
    /\ UNCHANGED <<http_vars, codec_vars, uc_index, pw_params, plugin_vars>>

\* The result is built: pw_get_status reads cdtime() and classifies the
\* servers, pw_get_metric lists the metrics.  ok is FALSE when a json object
\* cannot be allocated.
PwAnswer(h) ==
    /\ crashed = "none"
    /\ pw[h].pc = "answer"
    /\ \E ok \in BOOLEAN, cdtime \in CdtimesAt(now) :
          IF ~ok
          THEN pw' = [pw EXCEPT ![h] =
                  PwDone(pw[h].method, JSONRPC_ERROR_CODE_32603_INTERNAL_ERROR, 1)]
          ELSE IF pw[h].method = "pw_get_status"
          THEN pw' = [pw EXCEPT ![h] =
                  [@ EXCEPT !.pc = "done",
                            !.rc = 0,
                            !.cdtime = cdtime,
                            !.result = status_result(servers_tree(pw[h].servers),
                                                     pw[h].servers_status,
                                                     cdtime, pw_params.timeout)]]
          ELSE pw' = [pw EXCEPT ![h] =
                  [@ EXCEPT !.pc = "done",
                            !.rc = 0,
                            !.result = c_avl_iterate(pw[h].metrics)]]
    /\ UNCHANGED <<cache_vars, http_vars, codec_vars, uc_index, pw_params, plugin_vars>>

\* The callback has returned and jsonrpc_parse_node has built the answer.
PwReturn(h) ==
    /\ pw[h].pc = "done"
    /\ pw' = [pw EXCEPT ![h] = PwIdle]
    /\ UNCHANGED <<cache_vars, http_vars, codec_vars, uc_index, pw_params, plugin_vars>>

\* What jsonrpc_parse_node answers for the callback of handler h, for a
\* request with id 1.
pw_envelope(h) ==
    jsonrpc_parse_node([type |-> "object", jsonrpc |-> "2.0", idk |-> "int",
                        idv |-> 1, method |-> "known", rc |-> pw[h].rc]).jsonanswer

\* The cache holds one snapshot, taken at second 1.
PopulatedCache ==
    [i \in Slots |->
        IF i = 0
        THEN [names |-> 1, times |-> 1, number |-> 1,
              update_time |-> 1, ref |-> 0, ready |-> 1]
        ELSE EmptyEntry]

\* The callbacks on every value cache and every request, one callback at a
\* time, after the first jsonrpc_update_cache.
InitPw ==
    /\ uc_cache_copy = PopulatedCache
    /\ heap = {1}
    /\ nb_gen = 1
    /\ now = 1
    /\ jsonrpc_cache_expiration_time = JSONRPC_CACHE_EXPIRATION_TIME_DEFAULT
    /\ local_cache_lock = 0
    /\ upd = UpdIdle
    /\ rd = [h \in Handlers |-> RdIdle]
    /\ crashed = "none"
    /\ InitHttp({MAX_CLIENTS_DEFAULT})
    /\ dec = DecIdle
    /\ uc_index \in {[g \in 1 .. MaxSnapshots |-> x] : x \in Indexes}
    /\ pw_params \in ParamsOf(SampleTimeouts, ServerArrays)
    /\ pw = [h \in Handlers |-> PwIdle]
    /\ InitPlugin

NextPw ==
    \/ ClockTick
    \/ \E h \in Handlers :
          /\ \A k \in Handlers \ {h} : pw[k].pc = "idle"
          /\ \/ PwAcquire(h)
             \/ PwScan(h)
             \/ PwAnswer(h)
             \/ PwReturn(h)

SpecPw == InitPw /\ [][NextPw]_vars

\* Two value caches for the callbacks that run beside the refresh: a/c last
\* updated in second 2, and a/c and b/c last updated in second 6.
ChangingIndexes ==
    {[names |-> <<<<97, SLASH, 99>>>>, times |-> <<2 * CdtimePerSecond>>,
      number |-> 1],
     [names |-> <<<<97, SLASH, 99>>, <<98, SLASH, 99>>>>,
      times |-> <<6 * CdtimePerSecond, 6 * CdtimePerSecond>>, number |-> 2]}

\* The callbacks of both handler threads beside jsonrpc_update_cache, from
\* the start of the plugin with JsonrpcCacheExpirationTime 1: no snapshot has
\* been taken yet.
InitPwCache ==
    /\ InitCache({1})
    /\ InitHttp({MAX_CLIENTS_DEFAULT})
    /\ dec = DecIdle
    /\ uc_index \in {f \in [1 .. MaxSnapshots -> ChangingIndexes] :
                        \A g \in 3 .. MaxSnapshots : f[g] = f[g - 2]}
    /\ pw_params \in ParamsOf({2}, {<<<<97>>, <<98>>>>})
    /\ pw = [h \in Handlers |-> PwIdle]
    /\ InitPlugin

NextPwCache ==
    \/ ClockTick
    \/ SeqUpdate
    \/ \E h \in Handlers : PwAcquire(h)
    \/ \E h \in Handlers : PwScan(h)
    \/ \E h \in Handlers : PwAnswer(h)
    \/ \E h \in Handlers : PwReturn(h)

SpecPwCache == InitPwCache /\ [][NextPwCache]_vars

(* --------------------------- directory callbacks ------------------------ *)
DOT == 46

\* The bytes of a hostname or plugin: '.', '/' and 'h'.
NameBytes == {DOT, SLASH, 104}

\* The strings a request gives for "hostname" and "plugin", the empty string
\* included.
DirNames == UNION {[1 .. n -> NameBytes] : n \in 0 .. MaxNameLen}

\* The params of a request to a directory callback.
DirParams ==
    {[type |-> t, timeout |-> 0, server |-> <<>>, hostname |-> hn, plugin |-> pl] :
        t \in {"object", "array"}, hn \in DirNames, pl \in DirNames}

\* NULL != strchr(str, c)
strchr(str, c) == \E k \in 1 .. Len(str) : str[k] = c

\* "Parse the hostname" / "Parse the plugins": the string is refused.
not_a_name(str) ==
    \/ strchr(str, SLASH)
    \/ str = <<DOT>>
    \/ str = <<DOT, DOT>>

\* "Create the path variable", written without the data directory it starts
\* with.
plugins_path(hostname) == <<SLASH>> \o hostname
types_path(hostname, plugin) == <<SLASH>> \o hostname \o <<SLASH>> \o plugin

\* jsonrpc_cb_pw_get_dir_plugins / jsonrpc_cb_pw_get_dir_types up to the call
\* of get_dir_files_into_resultobject.  ok is FALSE when malloc or
\* json_object_new_object fails.
PwDirPath(h) ==
    /\ pw[h].pc = "idle"
    /\ \E method \in {"pw_get_dir_plugins", "pw_get_dir_types"}, ok \in BOOLEAN :
          IF \/ pw_params.type # "object"
             \/ not_a_name(pw_params.hostname)
             \/ method = "pw_get_dir_types" /\ not_a_name(pw_params.plugin)
          THEN pw' = [pw EXCEPT ![h] =
                  PwDone(method, JSONRPC_ERROR_CODE_32602_INVALID_PARAMS, 0)]
          ELSE IF ~ok
          THEN pw' = [pw EXCEPT ![h] =
                  PwDone(method, JSONRPC_ERROR_CODE_32603_INTERNAL_ERROR, 0)]
          ELSE pw' = [pw EXCEPT ![h] =
                  [PwIdle EXCEPT
                     !.pc = "get_dir_files",
                     !.method = method,
                     !.path = IF method = "pw_get_dir_plugins"
                              THEN plugins_path(pw_params.hostname)
                              ELSE types_path(pw_params.hostname,
                                              pw_params.plugin)]]
    /\ UNCHANGED <<cache_vars, http_vars, codec_vars, uc_index, pw_params, plugin_vars>>

\* get_dir_files_into_resultobject(path, resultobject) and the return of the
\* callback: the dirent cannot be allocated, or opendir fails, or the
\* directory is read.
PwDirRead(h) ==
    /\ pw[h].pc = "get_dir_files"
    /\ \E outcome \in {"malloc", "opendir", "read"} :
          pw' = [pw EXCEPT ![h] =
                  [@ EXCEPT !.pc = "done",
                            !.rc = IF outcome = "read" THEN 0
                                   ELSE JSONRPC_ERROR_CODE_32603_INTERNAL_ERROR,
                            !.opened = IF outcome = "read" THEN <<pw[h].path>>
                                       ELSE <<>>]]
    /\ UNCHANGED <<cache_vars, http_vars, codec_vars, uc_index, pw_params, plugin_vars>>

InitDir ==
    /\ InitCache({JSONRPC_CACHE_EXPIRATION_TIME_DEFAULT})
    /\ InitHttp({MAX_CLIENTS_DEFAULT})
    /\ dec = DecIdle
    /\ uc_index = [g \in 1 .. MaxSnapshots |->
                      [names |-> <<>>, times |-> <<>>, number |-> 0]]
    /\ pw_params \in DirParams
    /\ pw = [h \in Handlers |-> PwIdle]
    /\ InitPlugin

NextDir ==
    \/ \E h \in Handlers : PwDirPath(h)
    \/ \E h \in Handlers : PwDirRead(h)
    \/ \E h \in Handlers : PwReturn(h)

SpecDir == InitDir /\ [][NextDir]_vars

(* ------------------------------ the mutexes ---------------------------- *)
\* The statements of a thread that matter to the mutexes and to the counters
\* they protect.  The mutexes are those of the variable mutex; the variable
\* local_cache_lock of the cache model is not used here.
Instr(op, m, n) == [op |-> op, m |-> m, n |-> n]

\* The macro lock_and_increment(lock, var, n): (var) += (n) inside lock, the
\* read and the write of var being two accesses.
lock_and_increment(lock, var, n) ==
    <<Instr("lock", lock, 0), Instr("load", var, 0), Instr("store", var, n),
      Instr("unlock", lock, 0)>>

\* Variant of send_page that returns with update_counters held.
send_page_steps_KeepsUpdateCounters(result) ==
    <<Instr("lock", "update_counters", 0)>>
    \o (IF result = "JSONRPC_REQUEST_FAILED"
        THEN lock_and_increment("nb_jsonrpc_request_failed_lock",
                                "nb_jsonrpc_request_failed", 1)
        ELSE lock_and_increment("nb_jsonrpc_request_success_lock",
                                "nb_jsonrpc_request_success", 1))
    \o <<Instr("respond", result, 0), Instr("return", "send_page", 0)>>

\* send_page: the counter of the result is incremented inside
\* update_counters, then the response is created and queued.
send_page_steps(result) ==
    <<Instr("lock", "update_counters", 0)>>
    \o (IF result = "JSONRPC_REQUEST_FAILED"
        THEN lock_and_increment("nb_jsonrpc_request_failed_lock",
                                "nb_jsonrpc_request_failed", 1)
        ELSE lock_and_increment("nb_jsonrpc_request_success_lock",
                                "nb_jsonrpc_request_success", 1))
    \o <<Instr("unlock", "update_counters", 0), Instr("respond", result, 0),
         Instr("return", "send_page", 0)>>

\* The first call of jsonrpc_proceed_request_cb for an admitted request.
first_callback_steps(method) ==
    lock_and_increment("nb_new_connections_lock", "nb_new_connections", 1)
    \o (IF method = "POST"
        THEN lock_and_increment("nb_clients_lock", "nb_clients", 1)
        ELSE <<>>)
    \o <<Instr("return", "jsonrpc_proceed_request_cb", 0)>>

find_and_ref_steps ==
    <<Instr("lock", "local_cache_lock", 0), Instr("find_and_ref", "", 0),
      Instr("unlock", "local_cache_lock", 0),
      Instr("return", "jsonrpc_cache_last_entry_find_and_ref", 0)>>

entry_unref_steps ==
    <<Instr("lock", "local_cache_lock", 0), Instr("unref", "", 0),
      Instr("unlock", "local_cache_lock", 0),
      Instr("return", "jsonrpc_cache_entry_unref", 0)>>

\* request_completed for a POST whose body was received.
request_completed_steps ==
    lock_and_increment("nb_clients_lock", "nb_clients", -1)
    \o <<Instr("return", "request_completed", 0)>>

\* The statistics loop of jsonrpc_read: each slot is read inside
\* local_cache_lock.
jsonrpc_read_steps ==
    [k \in 1 .. 3 * NB_CACHE_ENTRY_MAX |->
        IF (k - 1) % 3 = 0 THEN Instr("lock", "local_cache_lock", 0)
        ELSE IF (k - 1) % 3 = 1 THEN Instr("read_slot", "", (k - 1) \div 3)
        ELSE Instr("unlock", "local_cache_lock", 0)]
    \o <<Instr("return", "jsonrpc_read", 0)>>

\* The requests a connection thread serves: one refused with the busy page,
\* a GET, a POST answered as a failure, and a POST whose method uses the
\* snapshot cache and succeeds.
RequestKinds == {"busy", "get", "post_failed", "post_method"}

\* What a thread executes for a request of this kind, or for one call of
\* jsonrpc_read.
ThreadSteps(kind) ==
    CASE kind = "busy" -> send_page_steps("JSONRPC_REQUEST_FAILED")
      [] kind = "get" ->
            first_callback_steps("GET")
            \o send_page_steps("JSONRPC_REQUEST_FAILED")
            \o <<Instr("return", "request_completed", 0)>>
      [] kind = "post_failed" ->
            first_callback_steps("POST")
            \o send_page_steps("JSONRPC_REQUEST_FAILED")
            \o request_completed_steps
      [] kind = "post_method" ->
            first_callback_steps("POST")
            \o find_and_ref_steps
            \o entry_unref_steps
            \o send_page_steps("JSONRPC_REQUEST_SUCCEEDED")
            \o request_completed_steps
      [] kind = "read" -> jsonrpc_read_steps

\* The read thread; the other threads serve connections.
ReadThread == NumHandlers + 1

\* The statement thread t is at.
CurrentInstr(t) == ThreadSteps(thr[t].kind)[thr[t].pc]

At(t, op) == thr[t].pc > 0 /\ CurrentInstr(t).op = op

\* Thread t after the statement it is at.
Advance(t, r) ==
    IF r.pc = Len(ThreadSteps(r.kind))
    THEN [r EXCEPT !.kind = "none", !.pc = 0, !.tmp = 0, !.cache_id = -1]
    ELSE [r EXCEPT !.pc = @ + 1]

\* A connection thread takes a request, or collectd calls jsonrpc_read.
ThreadStart(t) ==
    /\ thr[t].pc = 0
    /\ thr[t].started < MaxLockRequests
    /\ \E kind \in (IF t = ReadThread THEN {"read"} ELSE RequestKinds) :
          thr' = [thr EXCEPT ![t].kind = kind, ![t].pc = 1, ![t].started = @ + 1]
    /\ UNCHANGED <<cache_vars, http_vars, codec_vars, pw_vars,
                   httpd_server_port, read, mutex>>

\* pthread_mutex_lock returns once the mutex is free.
pthread_mutex_lock(t) ==
    /\ At(t, "lock")
    /\ mutex[CurrentInstr(t).m] = 0
    /\ mutex' = [mutex EXCEPT ![CurrentInstr(t).m] = t]
    /\ thr' = [thr EXCEPT ![t] = Advance(t, @)]
    /\ UNCHANGED <<cache_vars, http_vars, codec_vars, pw_vars,
                   httpd_server_port, read>>

pthread_mutex_unlock(t) ==
    /\ At(t, "unlock")
    /\ mutex' = [mutex EXCEPT ![CurrentInstr(t).m] = 0]
    /\ thr' = [thr EXCEPT ![t] = Advance(t, @)]
    /\ UNCHANGED <<cache_vars, http_vars, codec_vars, pw_vars,
                   httpd_server_port, read>>

\* The value of a counter.
Counter(var) ==
    CASE var = "nb_clients" -> nb_clients
      [] var = "nb_new_connections" -> nb_new_connections
      [] var = "nb_jsonrpc_request_failed" -> nb_jsonrpc_request_failed
      [] var = "nb_jsonrpc_request_success" -> nb_jsonrpc_request_success

\* (var) += (n), first half: the counter is read.
CounterLoad(t) ==
    /\ At(t, "load")
    /\ thr' = [thr EXCEPT ![t] = Advance(t, [@ EXCEPT !.tmp = Counter(CurrentInstr(t).m)])]
    /\ UNCHANGED <<cache_vars, http_vars, codec_vars, pw_vars,
                   httpd_server_port, read, mutex>>

\* (var) += (n), second half: the sum is written.
CounterStore(t) ==
    /\ At(t, "store")
    /\ LET var == CurrentInstr(t).m
           v == thr[t].tmp + CurrentInstr(t).n
       IN /\ nb_clients' = IF var = "nb_clients" THEN v ELSE nb_clients
          /\ nb_new_connections' =
                IF var = "nb_new_connections" THEN v ELSE nb_new_connections
          /\ nb_jsonrpc_request_failed' =
                IF var = "nb_jsonrpc_request_failed" THEN v
                ELSE nb_jsonrpc_request_failed
          /\ nb_jsonrpc_request_success' =
                IF var = "nb_jsonrpc_request_success" THEN v
                ELSE nb_jsonrpc_request_success
    /\ thr' = [thr EXCEPT ![t] = Advance(t, @)]
    /\ UNCHANGED <<cache_vars, max_clients, nb_requests, con, codec_vars,
                   pw_vars, httpd_server_port, read, mutex>>

\* The statements executed inside local_cache_lock: the scan and ref++ of
\* jsonrpc_cache_last_entry_find_and_ref, the ref-- of
\* jsonrpc_cache_entry_unref, the reading of one slot by jsonrpc_read.
CacheAccess(t) ==
    /\ thr[t].pc > 0
    /\ CurrentInstr(t).op \in {"find_and_ref", "unref", "read_slot"}
    /\ LET op == CurrentInstr(t).op
           last_cache_entry == last_entry_of(uc_cache_copy)
       IN IF op = "find_and_ref"
          THEN /\ uc_cache_copy' =
                     IF last_cache_entry = -1 THEN uc_cache_copy
                     ELSE [uc_cache_copy EXCEPT ![last_cache_entry].ref = @ + 1]
               /\ thr' = [thr EXCEPT ![t] =
                             Advance(t, [@ EXCEPT !.cache_id = last_cache_entry])]
          ELSE IF op = "unref"
          THEN /\ uc_cache_copy' =
                     [uc_cache_copy EXCEPT ![thr[t].cache_id].ref = @ - 1]
               /\ thr' = [thr EXCEPT ![t] = Advance(t, @)]
          ELSE /\ uc_cache_copy' = uc_cache_copy
               /\ thr' = [thr EXCEPT ![t] = Advance(t, @)]
    /\ UNCHANGED <<heap, nb_gen, now, jsonrpc_cache_expiration_time,
                   local_cache_lock, upd, rd, crashed, http_vars, codec_vars,
                   pw_vars, httpd_server_port, read, mutex>>

\* MHD_create_response_from_buffer and MHD_queue_response: the response is
\* queued, or one of them fails and send_page returns MHD_NO.
Respond(t) ==
    /\ At(t, "respond")
    /\ \E queued \in BOOLEAN :
          thr' = [thr EXCEPT ![t] =
                     Advance(t, [@ EXCEPT !.sent = IF queued THEN @ + 1 ELSE @])]
    /\ UNCHANGED <<cache_vars, http_vars, codec_vars, pw_vars,
                   httpd_server_port, read, mutex>>

\* The function returns to its caller.
Return(t) ==
    /\ At(t, "return")
    /\ thr' = [thr EXCEPT ![t] = Advance(t, @)]
    /\ UNCHANGED <<cache_vars, http_vars, codec_vars, pw_vars,
                   httpd_server_port, read, mutex>>

InitLocks ==
    /\ uc_cache_copy = PopulatedCache
    /\ heap = {1}
    /\ nb_gen = 1
    /\ now = 1
    /\ jsonrpc_cache_expiration_time = JSONRPC_CACHE_EXPIRATION_TIME_DEFAULT
    /\ local_cache_lock = 0
    /\ upd = UpdIdle
    /\ rd = [h \in Handlers |-> RdIdle]
    /\ crashed = "none"
    /\ InitHttp({MAX_CLIENTS_DEFAULT})
    /\ InitNoPerfwatcher

NextLocks ==
    \E t \in Threads :
        \/ ThreadStart(t)
        \/ pthread_mutex_lock(t)
        \/ pthread_mutex_unlock(t)
        \/ CounterLoad(t)
        \/ CounterStore(t)
        \/ CacheAccess(t)
        \/ Respond(t)
        \/ Return(t)

\* The connection threads and the read thread on the mutexes of the plugin.
SpecLocks == InitLocks /\ [][NextLocks]_vars

(* ------------------------- claims on the cache ------------------------- *)

\* Handler h holds a reference: find_and_ref has returned, unref not yet called.
Holds(h) == rd[h].pc = "using"

\* C1: from the return of jsonrpc_cache_last_entry_find_and_ref to the call
\* of jsonrpc_cache_entry_unref, the slot a handler holds stays ready and its
\* names/times/number are neither freed nor changed.
C1_HeldSlotStaysReadyAndUnchanged ==
    \A h \in Handlers :
        Holds(h) =>
            LET e == uc_cache_copy[rd[h].cache_id]
            IN /\ e.ready = 1
               /\ e.names = rd[h].names
               /\ e.times = rd[h].times
               /\ e.number = rd[h].number
               /\ rd[h].names \in heap
               /\ rd[h].times \in heap

\* The statements of jsonrpc_update_cache after the decision to update.
UpdAfterNeeded == {"find_free", "get_names", "set_update_time", "set_ref", "set_ready"}

\* The slot the update found current is older than the expiration time at t.
OlderThanExpiration(last_cache_entry, t) ==
    t - uc_cache_copy[last_cache_entry].update_time > jsonrpc_cache_expiration_time

\* C6 (amended): jsonrpc_update_cache goes on to take a new snapshot if and
\* only if there is no current slot or now - current.update_time is strictly
\* greater than the expiration time; at exactly the expiration time it returns
\* without updating.
C6_UpdateIffOlderThanExpiration ==
    /\ upd.pc = "test_needed" =>
          ((upd.update_needed = 1) <=>
              (\/ upd.last_cache_entry = -1
               \/ OlderThanExpiration(upd.last_cache_entry, upd.now)))
    /\ upd.pc \in UpdAfterNeeded =>
          (\/ upd.last_cache_entry = -1
           \/ OlderThanExpiration(upd.last_cache_entry, upd.now))

\* C6 witness: the update runs exactly `expiration` seconds after the current
\* snapshot was taken, and decides that no update is needed.
C6_Witness_ExactlyExpired ==
    /\ upd.pc = "test_needed"
    /\ upd.last_cache_entry # -1
    /\ upd.now - uc_cache_copy[upd.last_cache_entry].update_time
          = jsonrpc_cache_expiration_time
    /\ upd.update_needed = 0

\* C6 as stated: a new snapshot is taken if and only if there is no current
\* slot or now - current.update_time >= expiration.
C6_Original_UpdateAtExpiration ==
    upd.pc = "test_needed" =>
        ((upd.update_needed = 1) <=>
            (\/ upd.last_cache_entry = -1
             \/ upd.now - uc_cache_copy[upd.last_cache_entry].update_time
                   >= jsonrpc_cache_expiration_time))

\* C7: ref >= 0 for every slot in every reachable state.
C7_RefNeverNegative ==
    \A i \in Slots : uc_cache_copy[i].ref >= 0

\* C8: when jsonrpc_update_cache clears a slot's ready flag and frees its
\* arrays, at that moment the slot is ready, its ref is 0 and it is not the
\* current slot.
C8_ReclaimOnlyReadyUnreferencedNotCurrent ==
    upd.pc \in {"reclaim_clear", "reclaim_free"} =>
        /\ uc_cache_copy[upd.i].ref = 0
        /\ upd.i # jsonrpc_cache_last_entry_find
        /\ upd.pc = "reclaim_clear" => uc_cache_copy[upd.i].ready = 1

\* The statements of jsonrpc_update_cache that write slot bookkeeping (the
\* reclaim and the populate steps).
UpdTableSteps == {"reclaim_clear", "reclaim_free", "reclaim_null",
                  "set_update_time", "set_ref", "set_ready"}

\* C9: jsonrpc_update_cache touches slot bookkeeping only while it holds
\* local_cache_lock, so its reclaim and populate steps exclude acquire and
\* release: no handler is inside the lock at such a statement.
C9_UpdateExcludesHandlers ==
    upd.pc \in UpdTableSteps => local_cache_lock = 0

\* C10: what an acquire returns belongs to one slot that is ready and fully
\* populated at the moment of the return, never a torn or reclaimed one.
C10_AcquireReturnsReadySnapshot ==
    [][\A h \in Handlers :
          (rd[h].pc = "copy" /\ rd'[h].pc = "using") =>
              LET e == uc_cache_copy'[rd'[h].cache_id]
              IN /\ e.ready = 1
                 /\ rd'[h].names # 0
                 /\ rd'[h].names \in heap'
                 /\ rd'[h].times = rd'[h].names
                 /\ rd'[h].number = rd'[h].names]_vars

(* ----------------------- claims on the HTTP front end ------------------ *)

\* C2: the active-clients counter nb_clients never exceeds max_clients.
C2_ActiveClientsWithinMaxClients ==
    nb_clients <= max_clients

\* C3: every admitted POST is counted once at admission and once at its
\* completion, so nb_clients is 0 whenever no request is in flight.
C3_NoRequestInFlightMeansNoClient ==
    (\A c \in Conns : con[c].pc = "closed") => nb_clients = 0

\* The body of the request was one request object that jsonrpc_parse_node
\* rejects for its "jsonrpc" member or for a missing "id".
RejectedSingleObject(ci) ==
    /\ ci.req.kind = "object"
    /\ \/ ci.req.node.jsonrpc # "2.0"
       \/ ci.req.node.idk = "absent"

\* C4: a single request object whose jsonrpc member is absent or not "2.0",
\* or whose id is absent, gets no envelope: the response is status 400 with
\* the parse-error page and Connection: close, counted as a failure.
C4_RejectedObjectAnswered400 ==
    \A c \in Conns :
        (con[c].pc = "sent" /\ RejectedSingleObject(con[c])) =>
            /\ con[c].answerstring.isnull
            /\ con[c].response.status = 400
            /\ con[c].response.page = "parseerrorpage"
            /\ con[c].response.close_connection = "CLOSE_CONNECTION_YES"
            /\ con[c].response.result = "JSONRPC_REQUEST_FAILED"

\* The answer staged for the request is one JSON-RPC error envelope.
AnswersErrorEnvelope(ci) ==
    /\ ci.response.page = "answerstring"
    /\ ~ci.answerstring.isnull
    /\ ~ci.answerstring.batch
    /\ ci.answerstring.envs[1].kind = "error"

\* C5: a request answered with a JSON-RPC error envelope gets HTTP 200 without
\* Connection: close, and it is the failed-requests counter, not the
\* succeeded-requests counter, that is incremented.
C5_ErrorEnvelopeCountedAsFailure ==
    [][\A c \in Conns :
          (con[c].pc = "body" /\ con'[c].pc = "sent" /\ AnswersErrorEnvelope(con'[c])) =>
              /\ con'[c].response.status = 200
              /\ con'[c].response.close_connection = "CLOSE_CONNECTION_NO"
              /\ nb_jsonrpc_request_failed' = nb_jsonrpc_request_failed + 1
              /\ nb_jsonrpc_request_success' = nb_jsonrpc_request_success]_vars

(* ---------------------- claims on the cache, continued ------------------ *)

\* C11: the slot whose ref jsonrpc_cache_last_entry_find_and_ref increments is
\* a ready slot, the increment is by one and touches nothing else, and a
\* return of -1 changes no slot.  (The claim asks for more, that the slot is
\* the ready one with the greatest update_time; this is the part of it that
\* does not depend on when "greatest" is evaluated.)
C11_AcquireIncrementsAReadySlot ==
    [][\A h \in Handlers :
          /\ (rd[h].pc = "ref" /\ rd'[h].pc = "copy") =>
                /\ uc_cache_copy[rd[h].last_cache_entry].ready = 1
                /\ uc_cache_copy' =
                      [uc_cache_copy EXCEPT ![rd[h].last_cache_entry].ref = @ + 1]
          /\ (rd[h].pc = "ref" /\ rd'[h].pc = "idle") =>
                uc_cache_copy' = uc_cache_copy]_vars

\* The statements of jsonrpc_update_cache that store into the chosen slot.
UpdPopulateSteps == {"get_names", "set_update_time", "set_ref", "set_ready"}

\* A step of the read thread: no handler moved and the clock did not.
UpdStep == rd' = rd /\ now' = now

\* C12: when jsonrpc_update_cache needs an update while every slot is ready,
\* it stops on the assertion and leaves the table as it is; the slot it
\* populates otherwise is never a ready one.
C12_NoFreeSlotAssertsAndKeepsTable ==
    [][/\ (/\ upd.pc = "find_free"
           /\ \A i \in Slots : uc_cache_copy[i].ready = 1
           /\ UpdStep) =>
              /\ crashed' = "assert_free_cache_entry"
              /\ uc_cache_copy' = uc_cache_copy
              /\ heap' = heap
       /\ upd.pc \in UpdPopulateSteps =>
              /\ upd.free_cache_entry \in Slots
              /\ uc_cache_copy[upd.free_cache_entry].ready = 0]_vars

\* C12 witness: the update was needed with every slot ready, and it stopped.
C12_Witness_NoFreeSlot ==
    /\ crashed = "assert_free_cache_entry"
    /\ upd.pc = "find_free"
    /\ \A i \in Slots : uc_cache_copy[i].ready = 1

\* The call of jsonrpc_update_cache that this step of the read thread ran
\* returned 0: it did not abort, and it stored a snapshot if it needed one.
SeqReturned0 ==
    /\ UpdStep
    /\ crashed' = "none"
    /\ jsonrpc_update_cache_call(uc_cache_copy, jsonrpc_cache_expiration_time,
                                 now, nb_gen + 1, TRUE).called => nb_gen' # nb_gen

ReadySlots == {i \in Slots : uc_cache_copy[i].ready = 1}

\* C14: no two ready slots have the same update_time; when a slot is ready,
\* the scan of jsonrpc_cache_last_entry_find (the same loop as in
\* jsonrpc_cache_last_entry_find_and_ref) designates the one ready slot whose
\* update_time is greater than every other's, and the statistics loop of
\* jsonrpc_read publishes that slot's number.
C14_CurrentSlotUnique ==
    /\ \A i, j \in ReadySlots : i # j =>
           uc_cache_copy[i].update_time # uc_cache_copy[j].update_time
    /\ ReadySlots # {} =>
           /\ jsonrpc_cache_last_entry_find \in ReadySlots
           /\ \A j \in ReadySlots \ {jsonrpc_cache_last_entry_find} :
                  uc_cache_copy[j].update_time
                     < uc_cache_copy[jsonrpc_cache_last_entry_find].update_time
           /\ nb_entries_in_last_cache
                  = uc_cache_copy[jsonrpc_cache_last_entry_find].number
    /\ ReadySlots = {} =>
           /\ jsonrpc_cache_last_entry_find = -1
           /\ nb_entries_in_last_cache = 0

(* ------------------ claims on the HTTP front end, continued ------------- *)

\* C15: when the first callback of a request finds nb_clients >= max_clients,
\* the request is answered 503 with busypage (code -32400, "Too many
\* connections") and Connection: close, nb_jsonrpc_request_failed goes up by
\* exactly one, and nb_clients, nb_new_connections and the connection's
\* *con_cls are left as they were.
C15_BusyAnswers503AndAllocatesNothing ==
    [][\A c \in Conns :
          (con[c].pc = "first" /\ nb_clients >= max_clients /\ con'[c] # con[c]) =>
              /\ con'[c].pc = "sent"
              /\ con'[c].response.status = 503
              /\ con'[c].response.page = "busypage"
              /\ busypage.error = [code |-> -32400, message |-> "Too many connections"]
              /\ con'[c].response.close_connection = "CLOSE_CONNECTION_YES"
              /\ nb_jsonrpc_request_failed' = nb_jsonrpc_request_failed + 1
              /\ nb_jsonrpc_request_success' = nb_jsonrpc_request_success
              /\ nb_clients' = nb_clients
              /\ nb_new_connections' = nb_new_connections
              /\ con'[c].con_cls = "NULL"
              /\ con[c].con_cls = "NULL"]_vars

\* C15 witness: a request has been refused with 503 while another one holds
\* the only client slot.
C15_Witness_Refused ==
    \E c \in Conns :
        /\ con[c].pc = "sent"
        /\ con[c].response.status = 503
        /\ nb_clients >= max_clients

\* The request object n passes the checks of jsonrpc_parse_node on "jsonrpc"
\* and "id".
PassesStructuralChecks(n) ==
    /\ n.type = "object"
    /\ n.jsonrpc = "2.0"
    /\ n.idk = "int"

\* The request of ci was a batch whose elements all pass those checks.
WellFormedBatch(ci) ==
    /\ ci.req.kind = "array"
    /\ \A i \in 1 .. Len(ci.req.elems) : PassesStructuralChecks(ci.req.elems[i])

\* C16: a batch of N request objects that all pass the jsonrpc/id checks is
\* answered with status 200 and an array of exactly N envelopes, the i-th
\* answering the i-th request and carrying its id, for every N of the bound.
C16_BatchAnsweredInOrder ==
    \A c \in Conns :
        (con[c].pc \in {"sent", "corrupt"} /\ WellFormedBatch(con[c])) =>
            /\ con[c].pc = "sent"
            /\ con[c].response.status = 200
            /\ con[c].response.page = "answerstring"
            /\ ~con[c].answerstring.isnull
            /\ con[c].answerstring.batch
            /\ Len(con[c].answerstring.envs) = Len(con[c].req.elems)
            /\ \A i \in 1 .. Len(con[c].req.elems) :
                  /\ con[c].answerstring.envs[i]
                        = jsonrpc_parse_node(con[c].req.elems[i]).jsonanswer
                  /\ con[c].answerstring.envs[i].id = con[c].req.elems[i].idv

\* The request of ci was a batch with an element that is not a JSON object or
\* that fails the checks of jsonrpc_parse_node on "jsonrpc" and "id".
BatchWithRejectedElement(ci) ==
    /\ ci.req.kind = "array"
    /\ \E i \in 1 .. Len(ci.req.elems) : ~PassesStructuralChecks(ci.req.elems[i])

\* C17: a batch with an element that is not an object or that fails the
\* structural checks gets one structural-failure response: the error page,
\* no envelope of any element, counted once as a failure.
C17_RejectedElementDiscardsBatch ==
    [][\A c \in Conns :
          (con[c].pc = "body" /\ con'[c].pc # "body"
                              /\ BatchWithRejectedElement(con'[c])) =>
              /\ con'[c].pc = "sent"
              /\ con'[c].answerstring.isnull
              /\ con'[c].answerstring.envs = <<>>
              /\ con'[c].response.page = "parseerrorpage"
              /\ con'[c].response.status = 400
              /\ con'[c].response.close_connection = "CLOSE_CONNECTION_YES"
              /\ con'[c].response.result = "JSONRPC_REQUEST_FAILED"
              /\ nb_jsonrpc_request_failed' = nb_jsonrpc_request_failed + 1
              /\ nb_jsonrpc_request_success' = nb_jsonrpc_request_success]_vars

\* C17 witness: a batch whose first element was answered and whose second
\* element was rejected has been answered.
C17_Witness_SecondElementRejected ==
    \E c \in Conns :
        /\ con[c].pc = "sent"
        /\ con[c].req.kind = "array"
        /\ Len(con[c].req.elems) = 2
        /\ PassesStructuralChecks(con[c].req.elems[1])
        /\ ~PassesStructuralChecks(con[c].req.elems[2])

\* The i-th request object of the request of ci.
RequestObject(ci, i) ==
    IF ci.req.kind = "object" THEN ci.req.node ELSE ci.req.elems[i]

\* C18: no method callback is executed for a request object that has no id
\* or whose jsonrpc member is not "2.0".  Only the callbacks call
\* jsonrpc_cache_last_entry_find_and_ref, so no ref is incremented for such an
\* object either.
C18_RejectedObjectInvokesNoHandler ==
    \A c \in Conns :
        con[c].pc = "sent" =>
            \A k \in 1 .. Len(con[c].invoked) :
               LET n == RequestObject(con[c], con[c].invoked[k])
               IN /\ n.type = "object"
                  /\ n.jsonrpc = "2.0"
                  /\ n.idk # "absent"

\* C18 witness: a batch was handled whose first element ran its callback and
\* whose second element, a call of a known method without id, did not.
C18_Witness_NotificationNotInvoked ==
    \E c \in Conns :
        /\ con[c].pc = "sent"
        /\ con[c].req.kind = "array"
        /\ Len(con[c].req.elems) = 2
        /\ con[c].invoked = <<1>>
        /\ con[c].req.elems[2].type = "object"
        /\ con[c].req.elems[2].jsonrpc = "2.0"
        /\ con[c].req.elems[2].idk = "absent"
        /\ con[c].req.elems[2].method = "known"

\* The envelope that answers the i-th request object of the request of ci.
EnvelopeOf(ci, i) == ci.answerstring.envs[i]

\* The positions of the request objects of an answered request.
AnsweredObjects(ci) ==
    IF ci.pc # "sent" \/ ci.answerstring.isnull THEN {}
    ELSE 1 .. Len(ci.answerstring.envs)

\* k is one of the positions whose callback was executed.
WasInvoked(ci, k) == \E j \in 1 .. Len(ci.invoked) : ci.invoked[j] = k

\* C19: for a request object with valid jsonrpc and id, an absent method is
\* answered with an error envelope of code -32600 and the request's id, a
\* method that is not in the method table with an error envelope of code
\* -32601 "Method not found." and the request's id; no callback is executed
\* in either case.
C19_MissingOrUnknownMethod ==
    \A c \in Conns : \A k \in AnsweredObjects(con[c]) :
        LET n == RequestObject(con[c], k)
            e == EnvelopeOf(con[c], k)
        IN /\ (PassesStructuralChecks(n) /\ n.method = "absent") =>
                 /\ e = [kind |-> "error", code |-> -32600,
                         message |-> "Invalid Request.", id |-> n.idv]
                 /\ ~WasInvoked(con[c], k)
           /\ (PassesStructuralChecks(n) /\ n.method = "unknown") =>
                 /\ e = [kind |-> "error", code |-> -32601,
                         message |-> "Method not found.", id |-> n.idv]
                 /\ ~WasInvoked(con[c], k)

\* C19 witness: a batch was answered whose first element, with id 1, has no
\* method and whose second element, with id 0, calls an unknown method.
C19_Witness_AbsentThenUnknown ==
    \E c \in Conns :
        /\ AnsweredObjects(con[c]) = {1, 2}
        /\ PassesStructuralChecks(con[c].req.elems[1])
        /\ con[c].req.elems[1].method = "absent"
        /\ con[c].req.elems[1].idv = 1
        /\ PassesStructuralChecks(con[c].req.elems[2])
        /\ con[c].req.elems[2].method = "unknown"
        /\ con[c].req.elems[2].idv = 0

\* C20: the return code of the executed callback decides the envelope: 0
\* gives a result envelope with the request's id, a positive code the error
\* -32603 "Internal error.", a negative code the error with that code and the
\* canonical message for -32600..-32603, otherwise the callback's message.
C20_HandlerCodeToEnvelope ==
    \A c \in Conns : \A k \in AnsweredObjects(con[c]) :
        LET n == RequestObject(con[c], k)
            e == EnvelopeOf(con[c], k)
        IN WasInvoked(con[c], k) =>
             /\ e.id = n.idv
             /\ n.rc = 0 => e.kind = "result"
             /\ n.rc > 0 => /\ e.kind = "error"
                            /\ e.code = -32603
                            /\ e.message = "Internal error."
             /\ n.rc < 0 => /\ e.kind = "error"
                            /\ e.code = n.rc
                            /\ e.message =
                                  CASE n.rc = -32600 -> "Invalid Request."
                                    [] n.rc = -32601 -> "Method not found."
                                    [] n.rc = -32602 -> "Invalid params."
                                    [] n.rc = -32603 -> "Internal error."
                                    [] OTHER -> "errorstring"

\* C20 witness: a batch was answered whose first callback returned
\* -32602 and whose second callback returned a positive code.
C20_Witness_NegativeThenPositive ==
    \E c \in Conns :
        /\ AnsweredObjects(con[c]) = {1, 2}
        /\ con[c].invoked = <<1, 2>>
        /\ con[c].req.elems[1].rc = -32602
        /\ con[c].req.elems[2].rc > 0
        /\ con[c].req.elems[2].idv = 1

\* C21..C22: the failure pages and the response headers.

\* The request fails before any request object is looked at: a verb other
\* than POST, a POST without body, a form-encoded body that cannot be
\* percent-decoded, a body that is not JSON, or a JSON value that is neither
\* an object nor an array.
StructuralFailure(ci) ==
    \/ ci.method # "POST"
    \/ ci.method = "POST" /\ ci.jsonrequest = "NULL"
    \/ /\ ci.method = "POST"
       /\ ci.jsonrequest # "NULL"
       /\ \/ /\ ci.jsonrequest_encoding = "JRE_WWW_FORM_URLENCODED"
             /\ ci.req.kind = "undecodable"
          \/ ci.req.kind = "notjson"
          \/ ci.req.kind = "scalar"

\* C21: a request that has a verb other than POST, or is a POST with an empty
\* body, with a form-encoded body that fails percent-decoding, with a body
\* that is not parseable JSON or with an outer JSON value that is neither
\* object nor array, is answered with status 400 and an HTML error page, with
\* Connection: close and exactly one increment of the failure counter, and no
\* handler is invoked.
C21_StructuralFailureAnswered400 ==
    [][\A c \in Conns :
          (con[c].pc = "body" /\ con'[c].pc = "sent" /\ StructuralFailure(con'[c])) =>
              /\ con'[c].response.status = 400
              /\ con'[c].response.mimetype = "text/html"
              /\ con'[c].response.page \in {"errorpage", "parseerrorpage"}
              /\ con'[c].response.close_connection = "CLOSE_CONNECTION_YES"
              /\ con'[c].response.result = "JSONRPC_REQUEST_FAILED"
              /\ nb_jsonrpc_request_failed' = nb_jsonrpc_request_failed + 1
              /\ nb_jsonrpc_request_success' = nb_jsonrpc_request_success
              /\ con'[c].invoked = <<>>]_vars

\* C21 witness: a form-encoded body that cannot be percent-decoded has been
\* answered with the parse-error page.
C21_Witness_UndecodableAnswered ==
    \E c \in Conns :
        /\ con[c].pc = "sent"
        /\ con[c].jsonrequest_encoding = "JRE_WWW_FORM_URLENCODED"
        /\ con[c].req.kind = "undecodable"
        /\ con[c].response.page = "parseerrorpage"
        /\ nb_jsonrpc_request_failed = 1

\* C22: every response sent through send_page carries a Content-Type header,
\* and carries Connection: close if and only if the request is counted as a
\* failure; a response counted as a success is always status 200 with the MIME
\* type application/json-rpc and without Connection: close.
C22_CloseIffFailure ==
    [][\A c \in Conns :
          (con[c].pc # "sent" /\ con'[c].pc = "sent") =>
              /\ con'[c].response.mimetype \in {"text/html", "application/json-rpc"}
              /\ (con'[c].response.close_connection = "CLOSE_CONNECTION_YES")
                    <=> (nb_jsonrpc_request_failed' = nb_jsonrpc_request_failed + 1)
              /\ (con'[c].response.close_connection = "CLOSE_CONNECTION_NO")
                    <=> (nb_jsonrpc_request_success' = nb_jsonrpc_request_success + 1)
              /\ (nb_jsonrpc_request_failed' = nb_jsonrpc_request_failed + 1)
                    <=> (nb_jsonrpc_request_success' = nb_jsonrpc_request_success)
              /\ (nb_jsonrpc_request_success' = nb_jsonrpc_request_success + 1) =>
                    /\ con'[c].response.status = 200
                    /\ con'[c].response.mimetype = "application/json-rpc"]_vars

\* C22 witness: one connection has been answered as a success and kept alive,
\* the other as a failure and closed.
C22_Witness_SuccessAndFailureSent ==
    \E c, d \in Conns :
        /\ con[c].pc = "sent"
        /\ con[c].response.result = "JSONRPC_REQUEST_SUCCEEDED"
        /\ con[c].response.close_connection = "CLOSE_CONNECTION_NO"
        /\ con[d].pc = "sent"
        /\ con[d].response.result = "JSONRPC_REQUEST_FAILED"
        /\ con[d].response.close_connection = "CLOSE_CONNECTION_YES"

\* C23: the per-connection state is allocated at most once per request, by
\* the first callback and only when the request is admitted; it is freed
\* exactly once, by request_completed, which also sets *con_cls to NULL; the
\* state and its body buffer are never used after they were freed and never
\* freed twice.
C23_StateAllocatedOnceFreedOnce ==
    /\ [](\A c \in Conns :
            /\ con[c].con_cls # "NULL" => con[c].con_info_block = "live"
            /\ con[c].jsonrequest # "NULL" => con[c].jsonrequest_block = "live"
            /\ con[c].pc \in {"body", "sent"} /\ con[c].response.status # 503
                  => con[c].con_cls # "NULL"
            /\ con[c].con_info_block # "freed twice"
            /\ con[c].jsonrequest_block # "freed twice"
            /\ con[c].pc = "closed" =>
                  /\ con[c].con_cls = "NULL"
                  /\ con[c].con_info_block \in {"none", "freed"})
    /\ [][\A c \in Conns :
            /\ (con'[c].con_info_block = "live" /\ con[c].con_info_block # "live") =>
                  /\ con[c].pc = "admit"
                  /\ con[c].con_cls = "NULL"
                  /\ con[c].con_info_block = "none"
                  /\ nb_new_connections' = nb_new_connections + 1
            /\ (con'[c].con_info_block = "freed" /\ con[c].con_info_block # "freed") =>
                  /\ con[c].pc \in {"sent", "refused"}
                  /\ con'[c].pc = "closed"
                  /\ con[c].con_info_block = "live"
                  /\ con'[c].con_cls = "NULL"]_vars

\* C23 witness: a POST whose body was received has completed; its state and
\* its body buffer have both been freed and *con_cls is NULL again.
C23_Witness_CompletedAndFreed ==
    \E c \in Conns :
        /\ con[c].pc = "closed"
        /\ con[c].con_cls = "NULL"
        /\ con[c].con_info_block = "freed"
        /\ con[c].jsonrequest_block = "freed"

(* ----------------------- claims on the request body --------------------- *)

\* C24: decode_from_www_urlencoded inverts form-urlencoding.  For every text
\* x, decoding any encoding of x (a space written as "+" or "%20", any byte
\* possibly written as %HH with upper- or lower-case digits) succeeds and
\* leaves exactly x, NUL-terminated, at the start of the same buffer, never
\* longer than what was uploaded; what the JSON parser then reads is what it
\* reads when x is sent with a plain Content-Type.
C24_DecodeInvertsFormEncoding ==
    \A x \in Texts :
        (dec.pc \in {"decoded", "failed"} /\ dec.upload_data \in EncodingsOf(x)) =>
            /\ dec.pc = "decoded"
            /\ dec.l = Len(x) + 1
            /\ SubSeq(dec.jsonrequest, 1, Len(x)) = x
            /\ dec.jsonrequest[Len(x) + 1] = NUL
            /\ Len(x) <= dec.jsonrequest_size
            /\ Len(dec.jsonrequest) = dec.jsonrequest_size + 1
            /\ CString(dec.jsonrequest) = CString(x \o <<NUL>>)

\* C24 witness: the text "+ " uploaded as "%2b%20" has been decoded.
C24_Witness_LowerCaseEscapesDecoded ==
    /\ dec.pc = "decoded"
    /\ dec.upload_data = <<PERCENT, 50, 98, PERCENT, 50, 48>>
    /\ CString(dec.jsonrequest) = <<PLUS, SPACE>>

(* ---------------------- claims on the perfwatcher callbacks ------------- *)
\* name is server followed by '/' and server holds no '/': server is the text
\* of name before its first '/'.
HasHostPrefix(name, server) ==
    /\ Len(name) > Len(server)
    /\ SubSeq(name, 1, Len(server)) = server
    /\ name[Len(server) + 1] = SLASH
    /\ \A k \in 1 .. Len(server) : server[k] # SLASH

\* The snapshot that the callback of handler h acquired.
SnapshotOf(h) == uc_index[pw[h].names]

\* The greatest time of the names of the snapshot of handler h whose host is
\* server, 0 when there is none.
LatestOf(h, server) ==
    LET ts == {SnapshotOf(h).times[i] :
                  i \in {k \in 1 .. SnapshotOf(h).number :
                            HasHostPrefix(SnapshotOf(h).names[k], server)}}
    IN IF ts = {} THEN 0 ELSE CHOOSE t \in ts : \A u \in ts : u <= t

\* Handler h is returning the result of a successful pw_get_status.
StatusAnswered(h) ==
    /\ pw[h].pc = "done"
    /\ pw[h].method = "pw_get_status"
    /\ pw[h].rc = 0

\* C25: pw_get_status reports each distinct requested server exactly once
\* (nothing at all for an empty server array), with "unknown" when the
\* greatest time of the names of that host is 0, "up" when it is greater
\* than the current time minus the timeout, and "down" otherwise.
C25_StatusOfEachRequestedServer ==
    \A h \in Handlers :
        StatusAnswered(h) =>
            LET requested == {pw_params.server[i] : i \in 1 .. Len(pw_params.server)}
                result == pw[h].result
            IN /\ {result[n].key : n \in 1 .. Len(result)} = requested
               /\ Len(result) = Cardinality(requested)
               /\ \A n \in 1 .. Len(result) :
                     LET latest == LatestOf(h, result[n].key)
                     IN result[n].state =
                          IF latest = 0 THEN "unknown"
                          ELSE IF latest > pw[h].cdtime
                                            - pw_params.timeout * CdtimePerSecond
                               THEN "up"
                               ELSE "down"

\* C26 (as stated): with timeout 0, a server that has a value in the snapshot
\* is "down" when its latest time is before the current time, and is not
\* "down" when its latest time equals the current time.
C26_Original_NotDownAtCurrentTime ==
    \A h \in Handlers :
        StatusAnswered(h) /\ pw_params.timeout = 0 =>
            \A n \in 1 .. Len(pw[h].result) :
                LET latest == LatestOf(h, pw[h].result[n].key)
                IN /\ (latest # 0 /\ latest < pw[h].cdtime) =>
                          pw[h].result[n].state = "down"
                   /\ latest = pw[h].cdtime => pw[h].result[n].state # "down"

\* C26 (amended): with timeout 0, a server that has a value in the snapshot
\* is "down" unless its latest time is later than the current time (then it
\* is "up"); a server whose latest time equals the current time is "down".
C26_DownUnlessLaterThanNow ==
    \A h \in Handlers :
        StatusAnswered(h) /\ pw_params.timeout = 0 =>
            \A n \in 1 .. Len(pw[h].result) :
                LET latest == LatestOf(h, pw[h].result[n].key)
                IN latest # 0 =>
                      pw[h].result[n].state =
                          IF latest > pw[h].cdtime THEN "up" ELSE "down"

C26_Witness_DownAtCurrentTime ==
    \E h \in Handlers :
        /\ StatusAnswered(h)
        /\ pw_params.timeout = 0
        /\ \E n \in 1 .. Len(pw[h].result) :
              /\ LatestOf(h, pw[h].result[n].key) = pw[h].cdtime
              /\ pw[h].result[n].state = "down"

\* a comes before b in lexicographic order of the character codes.
LexBefore(a, b) ==
    \E k \in 1 .. (Len(b)) :
        /\ \A i \in 1 .. (k - 1) : i <= Len(a) /\ a[i] = b[i]
        /\ \/ k = Len(a) + 1
           \/ k <= Len(a) /\ a[k] < b[k]

\* The metric identifiers of the names of the snapshot of handler h whose host
\* is one of the requested servers: the text after the first '/'.
RequestedMetrics(h) ==
    {SubSeq(SnapshotOf(h).names[p[1]], Len(pw_params.server[p[2]]) + 2,
            Len(SnapshotOf(h).names[p[1]])) :
        p \in {q \in (1 .. SnapshotOf(h).number) \X (1 .. Len(pw_params.server)) :
                  HasHostPrefix(SnapshotOf(h).names[q[1]], pw_params.server[q[2]])}}

\* Handler h is returning the result of a successful pw_get_metric.
MetricAnswered(h) ==
    /\ pw[h].pc = "done"
    /\ pw[h].method = "pw_get_metric"
    /\ pw[h].rc = 0

\* C27: the array pw_get_metric returns holds exactly the metric identifiers
\* of the names whose host is a requested server, each once, in ascending
\* lexicographic order.
C27_MetricsAreTheSortedSet ==
    \A h \in Handlers :
        MetricAnswered(h) =>
            LET result == pw[h].result
            IN /\ {result[n] : n \in 1 .. Len(result)} = RequestedMetrics(h)
               /\ \A m, n \in 1 .. Len(result) : m < n => LexBefore(result[m], result[n])

C27_Witness_SharedMetricListedOnce ==
    \E h \in Handlers :
        /\ MetricAnswered(h)
        /\ Len(pw[h].result) = 1
        /\ \E i, k \in 1 .. SnapshotOf(h).number :
              /\ i # k
              /\ \E s, t \in 1 .. Len(pw_params.server) :
                    /\ HasHostPrefix(SnapshotOf(h).names[i], pw_params.server[s])
                    /\ HasHostPrefix(SnapshotOf(h).names[k], pw_params.server[t])

\* The callbacks that hold slot i: between their acquire and their release.
HeldBy(i) == {h \in Handlers : pw[h].pc = "scan" /\ pw[h].cache_id = i}

\* A step of the callback of handler h changes slot i in its ref only: one
\* more when h acquires i, one less when h releases i.
CallbackStepOnSlot(h, i) ==
    /\ uc_cache_copy'[i].ready = uc_cache_copy[i].ready
    /\ uc_cache_copy'[i].names = uc_cache_copy[i].names
    /\ uc_cache_copy'[i].times = uc_cache_copy[i].times
    /\ uc_cache_copy'[i].number = uc_cache_copy[i].number
    /\ uc_cache_copy'[i].update_time = uc_cache_copy[i].update_time
    /\ uc_cache_copy'[i].ref = uc_cache_copy[i].ref
           + (IF pw'[h].pc = "scan" /\ pw'[h].cache_id = i THEN 1 ELSE 0)
           - (IF pw[h].pc = "scan" /\ pw[h].cache_id = i THEN 1 ELSE 0)

StartsWithoutSnapshot(h) ==
    /\ pw[h].pc = "idle"
    /\ pw'[h].pc # "idle"
    /\ pw_params.type = (IF pw'[h].method = "pw_get_status" THEN "object" ELSE "array")
    /\ last_entry_of(uc_cache_copy) = -1

\* C29: a call of pw_get_status or pw_get_metric made while no slot is ready
\* is answered with the error -32603 "Internal error.", calls no release and
\* leaves the table as it is.
C29_NoSnapshotAnswersInternalError ==
    [][\A h \in Handlers :
          StartsWithoutSnapshot(h) =>
              /\ pw'[h].pc = "done"
              /\ (pw_envelope(h))' =
                     [kind |-> "error", code |-> -32603,
                      message |-> "Internal error.", id |-> 1]
              /\ pw'[h].unref_calls = 0
              /\ uc_cache_copy' = uc_cache_copy]_vars

C29_Witness_RefusedBeforeFirstSnapshot ==
    /\ \A i \in Slots : uc_cache_copy[i].ready = 0 /\ uc_cache_copy[i].ref = 0
    /\ \E h \in Handlers :
          /\ pw[h].pc = "done"
          /\ pw_params.type = (IF pw[h].method = "pw_get_status" THEN "object"
                                                                  ELSE "array")
          /\ pw[h].rc = JSONRPC_ERROR_CODE_32603_INTERNAL_ERROR
          /\ pw[h].unref_calls = 0
          /\ pw_envelope(h).message = "Internal error."

(* --------------------- claims on the directory callbacks ---------------- *)
\* The components of path, the text between its '/' characters; cur is the
\* component being read.
RECURSIVE path_components(_, _)
path_components(path, cur) ==
    IF path = <<>> THEN <<cur>>
    ELSE IF Head(path) = SLASH
         THEN <<cur>> \o path_components(Tail(path), <<>>)
         ELSE path_components(Tail(path), Append(cur, Head(path)))

\* How many directories below the directory it starts from the path made of
\* the components cs leads: an empty component and "." stay, ".." goes up.
RECURSIVE levels_below(_)
levels_below(cs) ==
    IF cs = <<>> THEN 0
    ELSE levels_below(Tail(cs))
         + (IF Head(cs) \in {<<>>, <<DOT>>} THEN 0
            ELSE IF Head(cs) = <<DOT, DOT>> THEN -1
            ELSE 1)

\* str equals ".", equals ".." or contains '/'.
DotOrSlash(str) ==
    \/ str = <<DOT>>
    \/ str = <<DOT, DOT>>
    \/ \E k \in 1 .. Len(str) : str[k] = SLASH

\* Handler h is in a directory callback that has got past its params.
InDirCallback(h) ==
    /\ pw[h].pc \in {"get_dir_files", "done"}
    /\ pw[h].method \in {"pw_get_dir_plugins", "pw_get_dir_types"}

\* A hostname (or, for pw_get_dir_types, a plugin) that is ".", ".." or holds
\* a '/' is answered -32602 and no directory is opened for it.
BadNamesRefused ==
    \A h \in Handlers :
        (/\ InDirCallback(h)
         /\ \/ DotOrSlash(pw_params.hostname)
            \/ pw[h].method = "pw_get_dir_types" /\ DotOrSlash(pw_params.plugin)) =>
            /\ pw[h].pc = "done"
            /\ pw[h].rc = JSONRPC_ERROR_CODE_32602_INVALID_PARAMS
            /\ pw[h].path = <<>>
            /\ pw[h].opened = <<>>

\* C30: pw_get_dir_plugins and pw_get_dir_types answer -32602 for a hostname
\* (or plugin) that is ".", ".." or holds a '/', before any directory is
\* opened, and every directory they read is one (pw_get_dir_plugins) or two
\* (pw_get_dir_types) components below the data directory.
C30_DirectoryReadBelowDatadir ==
    /\ BadNamesRefused
    /\ \A h \in Handlers :
          InDirCallback(h) =>
              \A k \in 1 .. Len(pw[h].opened) :
                  levels_below(path_components(pw[h].opened[k], <<>>)) =
                      IF pw[h].method = "pw_get_dir_plugins" THEN 1 ELSE 2

(* ------------------------------- C32 ----------------------------------- *)
\* C32: after any sequence of jsonrpc_config calls, accepted or rejected,
\* MaxClients is in [1, 65535] (16 if never set), the cache expiration is in
\* [1, 3600] (60 if never set) and a configured Port is in [1, 65535].
C32_SettingsInRange ==
    /\ max_clients \in 1 .. 65535
    /\ jsonrpc_cache_expiration_time \in 1 .. 3600
    /\ httpd_server_port # -1 => httpd_server_port \in 1 .. 65535

(* ------------------------------- C31 ----------------------------------- *)
\* The types of the values jsonrpc_read has submitted so far.
SubmittedTypes == {read.submitted[k].type : k \in DOMAIN read.submitted}

\* A step in which jsonrpc_read calls jsonrpc_update_cache.
ReadCallsUpdate == read.pc = "update" /\ read'.pc # "update"

\* C31: in each call of jsonrpc_read every self-counter, the ready snapshot
\* count, the per-slot reference counts and the entry count of the current
\* snapshot included, is published before jsonrpc_update_cache is called.
C31_StatisticsPublishedBeforeRefresh ==
    [][ReadCallsUpdate =>
          {"current_connections", "total_requests", "http_requests",
           "cache_size", "cache_entries", "nb_values"} \subseteq SubmittedTypes]_vars

\* C31 as amended: jsonrpc_read publishes the four connection and request
\* counters, then calls jsonrpc_update_cache, and publishes the cache
\* statistics only afterwards; the ready snapshot count and the entry count
\* it publishes describe the table as that call's refresh left it, and a slot
\* that is not ready is published with 0 references.
C31_CacheStatisticsPublishedAfterRefresh ==
    /\ [][ReadCallsUpdate =>
             [k \in DOMAIN read.submitted |-> read.submitted[k].type_instance]
                = <<"nb_clients", "nb_request_failed", "nb_request_succeeded",
                    "nb_connections">>]_vars
    /\ [](read.pc = "idle" /\ read.submitted # <<>> =>
             /\ Len(read.submitted) = NB_CACHE_ENTRY_MAX + 6
             /\ read.submitted[5] =
                   submit(jsonrpc_cache_nb_entries, "cache_size", "nb_used_cached")
             /\ \A i \in Slots :
                   /\ read.submitted[6 + i].type = "cache_entries"
                   /\ read.submitted[6 + i].type_instance
                         = cache_plugin_instance[i + 1]
                   /\ uc_cache_copy[i].ready = 0 => read.submitted[6 + i].value = 0
             /\ read.submitted[NB_CACHE_ENTRY_MAX + 6] =
                   submit(nb_entries_in_last_cache, "nb_values", ""))

\* A call of jsonrpc_read has returned after a refresh that left two ready
\* slots, one of them referenced, and has published them.
C31_Witness_TwoSnapshotsPublished ==
    /\ read.pc = "idle"
    /\ Len(read.submitted) = NB_CACHE_ENTRY_MAX + 6
    /\ read.submitted[5].value = 2
    /\ \E i \in Slots : read.submitted[6 + i].value = 1
    /\ read.submitted[NB_CACHE_ENTRY_MAX + 6].value = 2

(* ------------------------------- C33 ----------------------------------- *)
\* The sum of the reference counts of the slots from i on.
RECURSIVE SumOfRefs(_)
SumOfRefs(i) ==
    IF i = NB_CACHE_ENTRY_MAX THEN 0 ELSE uc_cache_copy[i].ref + SumOfRefs(i + 1)

\* C33: every handler that obtained a slot releases it exactly once before
\* it returns, so whenever no handler is running the reference counts of all
\* slots add up to 0.
C33_RefsBalancedWhenNoHandlerRuns ==
    (\A h \in Handlers : rd[h].pc = "idle") => SumOfRefs(0) = 0

(* ------------------------------- C34 ----------------------------------- *)
\* Handler h holds a reference: it has executed ref++ in
\* jsonrpc_cache_last_entry_find_and_ref and has not yet released the slot.
HoldsReference(h) == rd[h].pc \in {"copy", "using"}

\* At most NB_CACHE_ENTRY_MAX - 2 handlers hold a reference.
HoldersBounded ==
    Cardinality({h \in Handlers : HoldsReference(h)}) <= NB_CACHE_ENTRY_MAX - 2

\* The cache with at most NB_CACHE_ENTRY_MAX - 2 references held at any one
\* time; jsonrpc_update_cache runs in the read thread only.
SpecHolders == Init /\ [][NextCache /\ HoldersBounded']_vars

\* C34: with at most NB_CACHE_ENTRY_MAX - 2 references held at any one time
\* and the refresh on a single thread, jsonrpc_update_cache finds a slot that
\* is not ready whenever it needs an update: the "Not enough cache entry"
\* branch is not reached.
C34_FreeSlotWhenUpdateNeeded ==
    /\ crashed # "assert_free_cache_entry"
    /\ upd.pc = "find_free" => FirstFreeEntry # -1


\* An update is needed while a handler holds a superseded snapshot and all
\* slots but one are ready: the last slot is the free one.
C34_Witness_LastSlotFree ==
    /\ upd.pc = "find_free"
    /\ Cardinality({i \in Slots : uc_cache_copy[i].ready = 1}) = NB_CACHE_ENTRY_MAX - 1
    /\ \E h \in Handlers :
          /\ rd[h].pc = "using"
          /\ rd[h].cache_id # upd.last_cache_entry
          /\ uc_cache_copy[rd[h].cache_id].ref = 1
    /\ FirstFreeEntry # -1

(* ------------------------------- C35 ----------------------------------- *)
\* No handler holds a snapshot reference.
NoReferenceHeld == \A h \in Handlers : ~HoldsReference(h)

StartsAcquire(h) == rd[h].pc = "idle" /\ rd'[h].pc = "scan"

\* The cache in the behaviours in which the handlers call
\* jsonrpc_cache_last_entry_find_and_ref only once a slot is ready.
SpecPopulated ==
    Init /\ [][NextCache /\ \A h \in Handlers :
                               StartsAcquire(h) => ReadySlots # {}]_vars

\* Handler h has finished its scan without finding a ready slot:
\* jsonrpc_cache_last_entry_find_and_ref is about to return -1.
ReturnsNotAvailable(h) == rd[h].pc = "ref" /\ rd[h].last_cache_entry = -1

\* C36: once a call of jsonrpc_update_cache has made a slot ready, some slot
\* is ready in every later state, and no call of
\* jsonrpc_cache_last_entry_find_and_ref made from then on returns -1.
C36_AlwaysAvailableOncePopulated ==
    /\ [][ReadySlots # {} => ReadySlots' # {}]_vars
    /\ [](\A h \in Handlers : ~ReturnsNotAvailable(h))

(* ------------------------------- C37 ----------------------------------- *)
\* jsonrpc_read makes a call of jsonrpc_update_cache in which uc_get_names is
\* called and fails: an update was needed, a free slot was found, and no
\* snapshot was stored.
ReadCallsUpdateAndGetNamesFails ==
    /\ ReadCallsUpdate
    /\ update_cache_now(FALSE).called
    /\ nb_gen' = nb_gen

Superseded(g) ==
    /\ g \in heap
    /\ \E j \in Slots : /\ uc_cache_copy[j].ready = 1
                        /\ uc_cache_copy[j].names = g
                        /\ j # last_entry_of(uc_cache_copy)

Held(t) == {m \in Mutexes : mutex[m] = t}

CounterLocks ==
    {"nb_jsonrpc_request_success_lock", "nb_jsonrpc_request_failed_lock"}

\* The thread that holds the mutex t is blocked on, 0 when t is not blocked.
WaitsFor(t) ==
    IF At(t, "lock") /\ mutex[CurrentInstr(t).m] # 0
    THEN mutex[CurrentInstr(t).m]
    ELSE 0

\* C40: the mutexes of the plugin cannot deadlock.  A thread that holds
\* local_cache_lock holds nothing else and acquires nothing; a thread that
\* acquires a mutex while it holds one holds update_counters alone and
\* acquires the mutex of one request counter; a thread holds nothing when a
\* function returns or when it serves no request; no set of threads is
\* blocked on mutexes held inside the set, and no thread is blocked on a
\* mutex whose holder has finished.
C40_NoDeadlockOnMutexes ==
    /\ \A t \in Threads :
          /\ mutex["local_cache_lock"] = t =>
                Held(t) = {"local_cache_lock"} /\ ~At(t, "lock")
          /\ (At(t, "lock") /\ Held(t) # {}) =>
                /\ Held(t) = {"update_counters"}
                /\ CurrentInstr(t).m \in CounterLocks
          /\ Cardinality(Held(t)) = 2 =>
                \E m \in CounterLocks : Held(t) = {"update_counters", m}
          /\ Cardinality(Held(t)) <= 2
          /\ (thr[t].pc = 0 \/ At(t, "return")) => Held(t) = {}
          /\ WaitsFor(t) # 0 => thr[WaitsFor(t)].pc > 0
    /\ ~ \E S \in SUBSET Threads \ {{}} : \A t \in S : WaitsFor(t) \in S

\* A thread holds update_counters and the mutex of a request counter, nested
\* in that order, while another thread is blocked on update_counters and the
\* read thread holds local_cache_lock.
C40_Witness_NestedWhileOthersWait ==
    \E t, u \in Threads :
        /\ t # u
        /\ Cardinality(Held(t)) = 2
        /\ WaitsFor(u) = t
        /\ CurrentInstr(u).m = "update_counters"
        /\ mutex["local_cache_lock"] = ReadThread

(* ------------------------------- C39 ----------------------------------- *)
\* The responses MHD has queued for the threads from t on.
RECURSIVE ResponsesSent(_)
ResponsesSent(t) ==
    IF t > NumHandlers + 1 THEN 0 ELSE thr[t].sent + ResponsesSent(t + 1)

\* C39: each request answered through send_page adds exactly 1 to exactly
\* one of nb_jsonrpc_request_success and nb_jsonrpc_request_failed and no
\* increment is lost, so once no thread is serving a request the two
\* counters add up to the number of responses sent.
C39_CountersAddUpToResponsesSent ==
    (\A t \in Threads : thr[t].pc = 0) =>
        nb_jsonrpc_request_success + nb_jsonrpc_request_failed = ResponsesSent(1)

====
